---- MODULE Spec2Model ----
(***************************************************************************)
(* State-machine model of the TL 360 feedback server (src/server.js).      *)
(* The source file holds two revisions of the server:                      *)
(*   - the token-based revision (lines 1-842): start-session signs a JWT,  *)
(*     submit-feedback runs on a dedicated client with SELECT FOR UPDATE;  *)
(*   - the code-based revision (lines 844-1504): start-session returns the *)
(*     code row, every statement goes through pool.query.                  *)
(* Definitions of the token-based revision carry no suffix or the suffix   *)
(* T; definitions of the code-based revision carry the suffix C.           *)
(***************************************************************************)
EXTENDS Integers, Sequences, FiniteSets, TLC

(***************************************************************************)
(* Bounds of the model.                                                    *)
(***************************************************************************)
MaxCodes == 2       \* rows ever inserted into codes (codes_id_seq stops here)
MaxToken == 2       \* distinct strings randomCode() can return
MaxBatch == 2       \* largest count asked of generate-codes
MaxRows == 3        \* codes of the stores the admin reads run on

(***************************************************************************)
(* Program constants.                                                      *)
(***************************************************************************)
MIN_COMMENTS_FOR_DISPLAY == 3
MaxCount == 500

(***************************************************************************)
(* Value domains.                                                          *)
(***************************************************************************)
Reqs == {1, 2}                      \* the two concurrent public requests
CampaignIds == {"c1", "c2"}
Leaders == {"Gill", "Zed"}
SeedLeaders == {"Gill"}
Tokens == 1..MaxToken
ADMIN_PASSWORD == "secret"
Revs == {"token", "code"}

(***************************************************************************)
(* Strings. A string is modelled by its content s ("" or 0 = empty), by    *)
(* whether it carries surrounding whitespace (pad) and by whether it is    *)
(* written in lower case (lower).                                          *)
(***************************************************************************)
Str(s, pad, lower) == [s |-> s, pad |-> pad, lower |-> lower]
Plain(s) == Str(s, FALSE, FALSE)
EmptyStr == Plain(0)
Trim(v) == [v EXCEPT !.pad = FALSE]
ToUpperCase(v) == [v EXCEPT !.lower = FALSE]
\* JS truthiness of a string: only "" is falsy (whitespace is truthy).
Truthy(v) == ~(v.s = 0 /\ ~v.pad)

safeText(v) == Trim(v)
safeUpper(v) == ToUpperCase(safeText(v))
IsBlank(v) == v.s = 0

(***************************************************************************)
(* JSON values of a scores object and JS Number().                         *)
(*   t = "num"    a JSON number n                                          *)
(*   t = "numstr" a string spelling the number n                           *)
(*   t = "text"   a string that spells no number (Number gives NaN)        *)
(*   t = "null"   JSON null (Number gives 0)                               *)
(***************************************************************************)
JNum(n) == [t |-> "num", n |-> n]
JNumStr(n) == [t |-> "numstr", n |-> n]
JText == [t |-> "text", n |-> 0]
JNull == [t |-> "null", n |-> 0]
NaN == [nan |-> TRUE, n |-> 0]
Number(v) ==
  CASE v.t = "num" -> [nan |-> FALSE, n |-> v.n]
    [] v.t = "numstr" -> [nan |-> FALSE, n |-> v.n]
    [] v.t = "null" -> [nan |-> FALSE, n |-> 0]
    [] OTHER -> NaN
isFinite(x) == ~x.nan

RECURSIVE SumOver(_, _)
SumOver(f, S) ==
  IF S = {} THEN 0
  ELSE LET k == CHOOSE k \in S : TRUE IN f[k] + SumOver(f, S \ {k})

RECURSIVE Gcd(_, _)
Gcd(a, b) == IF b = 0 THEN a ELSE Gcd(b, a % b)
\* The quotient s / n of two integers (n > 0), in lowest terms.
Ratio(s, n) == LET g == Gcd(s, n) IN [num |-> s \div g, den |-> n \div g]
\* null where a number is expected.
NoScore == [num |-> 0, den |-> 0]
\* Arithmetic on quotients.
RAdd(a, b) == Ratio(a.num * b.den + b.num * a.den, a.den * b.den)
RSub(a, b) == Ratio(a.num * b.den - b.num * a.den, a.den * b.den)
RDiv(a, n) == Ratio(a.num, a.den * n)
RECURSIVE RSum(_, _)
RSum(f, S) ==
  IF S = {} THEN Ratio(0, 1)
  ELSE LET k == CHOOSE k \in S : TRUE IN RAdd(f[k], RSum(f, S \ {k}))

(***************************************************************************)
(* QUESTION_GROUPS and computeCategoryAverages (lines 96-119).             *)
(***************************************************************************)
Categories ==
  <<"Leadership & Management", "Communication", "Team Support & Development",
    "Collaboration & Culture", "Execution & Accountability">>
QUESTION_GROUPS ==
  [cat \in {Categories[i] : i \in 1..Len(Categories)} |->
     CASE cat = "Leadership & Management" -> {"q1", "q2", "q3"}
       [] cat = "Communication" -> {"q4", "q5", "q6"}
       [] cat = "Team Support & Development" -> {"q7", "q8", "q9"}
       [] cat = "Collaboration & Culture" -> {"q10", "q11", "q12"}
       [] OTHER -> {"q13", "q14", "q15"}]

\* Line 110: Number(questionAverages[qid]): NaN for a missing key, 0 for null.
NumberOfAverage(questionAverages, qid) ==
  IF qid \notin DOMAIN questionAverages THEN [nan |-> TRUE, v |-> Ratio(0, 1)]
  ELSE IF questionAverages[qid].den = 0 THEN [nan |-> FALSE, v |-> Ratio(0, 1)]
  ELSE [nan |-> FALSE, v |-> questionAverages[qid]]
\* Line 111: the members that count: Number.isFinite(v) && v > 0.
Counted(questionAverages, qids) ==
  {qid \in qids : LET x == NumberOfAverage(questionAverages, qid) IN
                  ~x.nan /\ x.v.num > 0}
computeCategoryAverages(questionAverages) ==
  [cat \in DOMAIN QUESTION_GROUPS |->
     LET K == Counted(questionAverages, QUESTION_GROUPS[cat])
         n == Cardinality(K) IN
     IF n # 0 THEN RDiv(RSum(questionAverages, K), n) ELSE NoScore]

(***************************************************************************)
(* The aggregate of the feedback rows of one (cycle, team leader), as the  *)
(* detail handler (lines 499-521) and getAgg of compare (lines 721-762)    *)
(* compute it.                                                             *)
(***************************************************************************)
\* sums / counts: the rows whose value for qid has a finite Number().
Finite(rows, qid) ==
  {i \in 1..Len(rows) : /\ qid \in DOMAIN rows[i].scores_json
                        /\ isFinite(Number(rows[i].scores_json[qid]))}
questionAverages(rows) ==
  [qid \in {q \in UNION {DOMAIN rows[i].scores_json : i \in 1..Len(rows)} :
              Finite(rows, q) # {}} |->
     LET I == Finite(rows, qid) IN
     Ratio(SumOver([i \in I |-> Number(rows[i].scores_json[qid]).n], I),
           Cardinality(I))]
\* overallSum / responseCount, null without a row.
avgOverall(rows) ==
  IF Len(rows) = 0 THEN NoScore
  ELSE RDiv(RSum([i \in 1..Len(rows) |-> rows[i].overall_score], 1..Len(rows)),
            Len(rows))
Agg(cycleId, rows) ==
  [cycleId |-> cycleId, responseCount |-> Len(rows), avgOverall |-> avgOverall(rows),
   questionAverages |-> questionAverages(rows),
   categoryAverages |-> computeCategoryAverages(questionAverages(rows))]
NoAgg == Agg("", <<>>)
\* Mutant of Delta: a missing side counts as zero.
DeltaFromZero(a, b) ==
  RSub(IF b.den = 0 THEN Ratio(0, 1) ELSE b, IF a.den = 0 THEN Ratio(0, 1) ELSE a)
\* Lines 768-775: b - a, null when either side is null.
Delta(a, b) == IF a.den = 0 \/ b.den = 0 THEN NoScore ELSE RSub(b, a)
deltas(fromAgg, toAgg) ==
  [cat \in DOMAIN QUESTION_GROUPS |->
     Delta(fromAgg.categoryAverages[cat], toAgg.categoryAverages[cat])]
NoCompare == [from |-> NoAgg, to |-> NoAgg, overallDelta |-> NoScore,
              deltas |-> deltas(NoAgg, NoAgg), aiChangeSummary |-> ""]

(***************************************************************************)
(* State.                                                                  *)
(***************************************************************************)
VARIABLES
  campaigns,      \* table campaigns: id -> label
  team_leaders,   \* table team_leaders: id -> active
  codes,          \* table codes: id -> row (committed)
  feedback,       \* table feedback: committed rows in created_at order
  nextCodeId,     \* codes_id_seq
  issued,         \* payloads signSessionToken has signed
  req,            \* the public submit-feedback requests: slot -> record
  gen,            \* the admin generate-codes request
  resp,           \* the response of the last single-statement handler
  commits,        \* history: code id -> number of committed submissions
  rev,            \* the revision of server.js that runs: "token" or "code"
  conn,           \* code-based revision: the session of the pooled connection
  adm,            \* code-based revision: the admin requests between two statements
  prompt          \* what the last ai-summary request sent to the text-generation service

vars == <<campaigns, team_leaders, codes, feedback, nextCodeId, issued, req,
          gen, resp, commits, rev, conn, adm, prompt>>
\* What the handlers of the token-based revision never touch.
codeRev == <<rev, conn, adm>>
reads == <<codeRev, prompt>>
tables == <<campaigns, team_leaders, codes, feedback>>

NoPayload == [codeId |-> 0, campaignId |-> "", teamLeaderId |-> ""]
NoBody == [hasScores |-> FALSE, scores |-> <<>>, strengthsText |-> EmptyStr,
           devText |-> EmptyStr, otherText |-> EmptyStr]
NoOverall == [num |-> 0, den |-> 1]
\* raced is history: the code was unused when the request was received.
IdleReq == [pc |-> "idle", payload |-> NoPayload, body |-> NoBody,
            overall |-> NoOverall, lock |-> 0, ins |-> <<>>, upd |-> {},
            status |-> 0, error |-> "", raced |-> FALSE, code |-> EmptyStr]
\* before, caught, key and inactive are history: the codes stored when the
\* request was received, the kind of the last error an INSERT of the request
\* threw, the x-admin-key the request came with, and whether the team leader
\* was stored and inactive when the request was received.
IdleGen == [pc |-> "idle", campaignId |-> "", teamLeaderId |-> "", count |-> 0,
            batch |-> <<>>, status |-> 0, error |-> "", codes |-> <<>>,
            before |-> {}, caught |-> "", key |-> "", inactive |-> FALSE]
\* The body of a response: what start-session returns (the token's payload;
\* in the code-based revision the code and the campaign label), the row count
\* an admin statement reports, and (history) the code start-session was
\* asked for.
\* comments is what detail returns: null (shown = FALSE) or the three lists;
\* agg the averages detail returns, rows the rows of a listing (campaigns,
\* team-leaders, overview), compare what compare returns.
NoComments == [shown |-> FALSE, strengths |-> <<>>, devs |-> <<>>, others |-> <<>>]
Body(asked, payload, code, label, n) ==
  [asked |-> asked, payload |-> payload, code |-> code, campaignLabel |-> label,
   n |-> n, comments |-> NoComments, summary |-> "", agg |-> NoAgg,
   rows |-> <<>>, compare |-> NoCompare]
NoData == Body(EmptyStr, NoPayload, 0, "", 0)
Count(n) == Body(EmptyStr, NoPayload, 0, "", n)
NoResp == [op |-> "", status |-> 0, error |-> "", key |-> "", body |-> NoData]
\* The session of the pooled connection: no transaction ("none"), inside a
\* transaction block ("open"), inside a failed one ("aborted"); saved holds
\* the tables as they were at BEGIN.
NoConn == [txn |-> "none", saved |-> <<>>]
AdmOps == {"detail", "delete-feedback"}
IdleAdm == [pc |-> "idle", key |-> "", campaignId |-> "", teamLeaderId |-> "",
            count |-> 0, deleted |-> {}]
NoPrompt == [campaignId |-> "", teamLeaderId |-> "", parts |-> <<>>]

\* initDb (token-based): empty tables, team leaders seeded when empty.
Init ==
  /\ campaigns = <<>>
  /\ team_leaders = [n \in SeedLeaders |-> TRUE]
  /\ codes = <<>>
  /\ feedback = <<>>
  /\ nextCodeId = 1
  /\ issued = {}
  /\ req = [r \in Reqs |-> IdleReq]
  /\ gen = IdleGen
  /\ resp = NoResp
  /\ rev = "token"
  /\ conn = NoConn
  /\ adm = [o \in AdmOps |-> IdleAdm]
  /\ prompt = NoPrompt
  /\ commits = [c \in 1..MaxCodes |-> 0]

(***************************************************************************)
(* Helpers on the store.                                                   *)
(***************************************************************************)
Restrict(f, S) == [x \in S |-> f[x]]
Upsert(f, k, v) == [x \in DOMAIN f \cup {k} |-> IF x = k THEN v ELSE f[x]]
\* Row locks on codes held by open submit-feedback transactions.
Locked(c) == \E r \in Reqs : req[r].lock = c
\* An open transaction references the campaign / team leader: through its
\* locked codes row or through the foreign keys of a feedback row it inserted.
TxnTouches(r, camp, tl) ==
  \/ /\ req[r].lock # 0
     /\ req[r].lock \in DOMAIN codes
     /\ \/ codes[req[r].lock].campaign_id = camp
        \/ codes[req[r].lock].team_leader_id = tl
  \/ \E i \in 1..Len(req[r].ins) :
        \/ req[r].ins[i].campaign_id = camp
        \/ req[r].ins[i].team_leader_id = tl

\* Mutant of adminAuth: any key that is present is accepted.
adminAuthAnyKey(key) == key # ""
\* Lines 62-66: the x-admin-key header must be present and equal the password.
adminAuth(key) == ~(key = "" \/ key # ADMIN_PASSWORD)
\* A response of a single-statement handler; key is the x-admin-key it came with.
Reply(op, key, status, error, body) ==
  [op |-> op, status |-> status, error |-> error, key |-> key, body |-> body]
Unauthorized(op, key) == Reply(op, key, 401, "unauthorized", NoData)

(***************************************************************************)
(* PUBLIC API, token-based revision.                                       *)
(***************************************************************************)
\* The codes rows a start-session query matches: UPPER(TRIM(code)) = $1.
MatchingCodes(code) ==
  {c \in DOMAIN codes : ToUpperCase(Trim(Plain(codes[c].code))) = code}

\* Mutant of signSessionToken: the payload names the campaign and not the
\* team leader.
signWithoutLeader(row, id) ==
  [codeId |-> id, campaignId |-> row.campaign_id, teamLeaderId |-> ""]

signSessionToken(row, id) ==
  [codeId |-> id, campaignId |-> row.campaign_id, teamLeaderId |-> row.team_leader_id]

Asked(code, p) == Body(code, p, 0, "", 0)

\* Mutant of StartSession: redeeming the code consumes it.
StartSessionConsumes(v) ==
  LET code == safeUpper(v)
      M == MatchingCodes(code) IN
  /\ rev = "token"
  /\ resp' = Reply("start-session", "", IF M = {} THEN 404 ELSE 200, "",
                   Asked(code, NoPayload))
  /\ codes' = [c \in DOMAIN codes |->
                IF c \in M THEN [codes[c] EXCEPT !.used = TRUE] ELSE codes[c]]
  /\ UNCHANGED <<campaigns, team_leaders, feedback, nextCodeId, issued, req, gen, commits, reads>>

\* POST /api/start-session: one SELECT, no write.
StartSession(v) ==
  LET code == safeUpper(v) IN
  /\ rev = "token"
  /\ IF IsBlank(code)
       THEN /\ resp' = Reply("start-session", "", 400, "Code is required.",
                             Asked(code, NoPayload))
            /\ UNCHANGED issued
       ELSE IF MatchingCodes(code) = {}
         THEN /\ resp' = Reply("start-session", "", 404, "Invalid code.",
                               Asked(code, NoPayload))
              /\ UNCHANGED issued
         ELSE LET id == CHOOSE c \in MatchingCodes(code) : TRUE
                  row == codes[id] IN
              IF row.used
                THEN /\ resp' = Reply("start-session", "", 409,
                                      "This code has already been used.",
                                      Asked(code, NoPayload))
                     /\ UNCHANGED issued
                ELSE /\ resp' = Reply("start-session", "", 200, "",
                                     Asked(code, signSessionToken(row, id)))
                     /\ issued' = issued \cup {signSessionToken(row, id)}
  /\ UNCHANGED <<tables, nextCodeId, req, gen, commits, reads>>

\* A session token as the client sends it.
NoToken == [kind |-> "none", payload |-> NoPayload, expired |-> FALSE]
ForgedToken(p) == [kind |-> "forged", payload |-> p, expired |-> FALSE]
SignedToken(p, e) == [kind |-> "signed", payload |-> p, expired |-> e]
\* jwt.verify: the signature is the server's and the token has not expired.
\* Mutant of verifySessionToken: the expiry is not looked at.
verifyIgnoresExpiry(tok) == tok.kind = "signed" /\ tok.payload \in issued
verifySessionToken(tok) == tok.kind = "signed" /\ ~tok.expired /\ tok.payload \in issued

\* Lines 262-264: the finite Number()s of the supplied values, and their mean.
FiniteKeys(scores) == {q \in DOMAIN scores : isFinite(Number(scores[q]))}
OverallScore(scores) ==
  LET K == FiniteKeys(scores)
      n == [q \in K |-> Number(scores[q]).n] IN
  Ratio(SumOver(n, K), Cardinality(K))

\* The response is sent and the client released; the slot keeps the payload
\* the request came with.
Finish(r, status, error) ==
  [IdleReq EXCEPT !.pc = "done", !.status = status, !.error = error,
                  !.payload = req[r].payload, !.raced = req[r].raced]

\* POST /api/submit-feedback, lines 236-266: everything up to pool.connect().
SubmitRecv(r, tok, b) ==
  /\ req[r].pc \in {"idle", "done"}
  /\ LET strengthsText == safeText(b.strengthsText)
         devText == safeText(b.devText)
         otherText == safeText(b.otherText)
         fresh == [IdleReq EXCEPT !.payload = tok.payload,
                     !.raced = /\ tok.payload.codeId \in DOMAIN codes
                               /\ ~codes[tok.payload.codeId].used,
                     !.body = [b EXCEPT !.strengthsText = strengthsText,
                                        !.devText = devText,
                                        !.otherText = otherText]]
         reject(status, error) ==
           [IdleReq EXCEPT !.pc = "done", !.status = status, !.error = error]
     IN req' = [req EXCEPT ![r] =
          IF tok.kind = "none" THEN reject(400, "Missing sessionToken.")
          ELSE IF ~b.hasScores THEN reject(400, "Missing scores.")
          ELSE IF IsBlank(strengthsText) \/ IsBlank(devText) \/ IsBlank(otherText)
            THEN reject(400, "Please complete all written questions before submitting.")
          ELSE IF ~verifySessionToken(tok)
            THEN reject(401, "Session expired. Please click Start over and re-enter your code.")
          ELSE IF tok.payload.codeId = 0 \/ tok.payload.campaignId = ""
                  \/ tok.payload.teamLeaderId = ""
            THEN reject(400, "Invalid session. Please start over.")
          ELSE IF FiniteKeys(b.scores) = {} THEN reject(400, "Scores incomplete.")
          ELSE [fresh EXCEPT !.pc = "begin", !.overall = OverallScore(b.scores)]]
  /\ UNCHANGED <<tables, nextCodeId, issued, gen, resp, commits, reads>>

\* Line 268: BEGIN on the request's own client.
Begin(r) ==
  /\ req[r].pc = "begin"
  /\ req' = [req EXCEPT ![r].pc = "select"]
  /\ UNCHANGED <<tables, nextCodeId, issued, gen, resp, commits, reads>>

\* Mutant of SelectForUpdate: a plain SELECT, which neither waits for the
\* row's lock nor takes it.
SelectNoLock(r) ==
  LET c == req[r].payload.codeId IN
  /\ req[r].pc = "select"
  /\ req' = [req EXCEPT ![r] =
       IF c \notin DOMAIN codes THEN [@ EXCEPT !.pc = "rb_invalid"]
       ELSE IF codes[c].used THEN [@ EXCEPT !.pc = "rb_used"]
       ELSE [@ EXCEPT !.pc = "insert"]]
  /\ UNCHANGED <<tables, nextCodeId, issued, gen, resp, commits, reads>>

\* Lines 270-282: SELECT used FROM codes WHERE id = $1 FOR UPDATE. The
\* statement waits while another transaction holds the row's lock, then reads
\* the committed row and locks it.
SelectForUpdate(r) ==
  LET c == req[r].payload.codeId IN
  /\ req[r].pc = "select"
  /\ ~Locked(c)
  /\ req' = [req EXCEPT ![r] =
       IF c \notin DOMAIN codes THEN [@ EXCEPT !.pc = "rb_invalid"]
       ELSE IF codes[c].used THEN [@ EXCEPT !.pc = "rb_used", !.lock = c]
       ELSE [@ EXCEPT !.pc = "insert", !.lock = c]]
  /\ UNCHANGED <<tables, nextCodeId, issued, gen, resp, commits, reads>>

FeedbackRow(r) ==
  [campaign_id |-> req[r].payload.campaignId,
   team_leader_id |-> req[r].payload.teamLeaderId,
   scores_json |-> req[r].body.scores,
   overall_score |-> req[r].overall,
   strengths_text |-> req[r].body.strengthsText,
   dev_text |-> req[r].body.devText,
   other_text |-> req[r].body.otherText]

\* Mutant of InsertFeedback: the INSERT runs outside the transaction and is
\* committed at once.
InsertAutocommit(r) ==
  /\ req[r].pc = "insert"
  /\ req' = [req EXCEPT ![r].pc = "update"]
  /\ feedback' = Append(feedback, FeedbackRow(r))
  /\ UNCHANGED <<campaigns, team_leaders, codes, nextCodeId, issued, gen, resp, commits, reads>>

\* Lines 284-290: INSERT INTO feedback, inside the transaction.
InsertFeedback(r) ==
  /\ req[r].pc = "insert"
  /\ req' = [req EXCEPT ![r].pc = "update", ![r].ins = Append(@, FeedbackRow(r))]
  /\ UNCHANGED <<tables, nextCodeId, issued, gen, resp, commits, reads>>

\* Mutant of UpdateCode: the UPDATE matches no row.
UpdateNothing(r) ==
  /\ req[r].pc = "update"
  /\ req' = [req EXCEPT ![r].pc = "commit"]
  /\ UNCHANGED <<tables, nextCodeId, issued, gen, resp, commits, reads>>

\* Lines 292-295: UPDATE codes SET used = true, used_at = now(), inside the
\* transaction.
UpdateCode(r) ==
  /\ req[r].pc = "update"
  /\ req' = [req EXCEPT ![r].pc = "commit", ![r].upd = @ \cup {req[r].payload.codeId}]
  /\ UNCHANGED <<tables, nextCodeId, issued, gen, resp, commits, reads>>

\* The tables after a transaction's writes are committed.
MarkUsed(cs, U, r) ==
  [c \in DOMAIN cs |-> IF c \in U THEN [cs[c] EXCEPT !.used = TRUE, !.used_at = r]
                       ELSE cs[c]]

\* Lines 297-298: COMMIT, then the success response.
Commit(r) ==
  /\ req[r].pc = "commit"
  /\ feedback' = feedback \o req[r].ins
  /\ codes' = MarkUsed(codes, req[r].upd, r)
  /\ commits' = [c \in DOMAIN commits |->
                   IF c = req[r].payload.codeId THEN commits[c] + Len(req[r].ins)
                   ELSE commits[c]]
  /\ req' = [req EXCEPT ![r] = Finish(r, 200, "")]
  /\ UNCHANGED <<campaigns, team_leaders, nextCodeId, issued, gen, resp, reads>>

\* Mutant of Rollback: a code found used is answered without ROLLBACK, and
\* the transaction stays open with the row's lock.
RollbackLeavesLock(r) ==
  /\ req[r].pc \in {"rb_invalid", "rb_used", "rb_error"}
  /\ req' = [req EXCEPT ![r] =
       CASE req[r].pc = "rb_invalid" -> Finish(r, 400, "Invalid code session.")
         [] req[r].pc = "rb_used" ->
              [Finish(r, 409, "This code has already been used.") EXCEPT
                 !.lock = req[r].lock]
         [] OTHER -> Finish(r, 500, "Server error saving feedback.")]
  /\ UNCHANGED <<tables, nextCodeId, issued, gen, resp, commits, reads>>

\* Lines 275-282 and 299-305: ROLLBACK, the error response, client.release().
Rollback(r) ==
  /\ req[r].pc \in {"rb_invalid", "rb_used", "rb_error"}
  /\ req' = [req EXCEPT ![r] =
       CASE req[r].pc = "rb_invalid" -> Finish(r, 400, "Invalid code session.")
         [] req[r].pc = "rb_used" -> Finish(r, 409, "This code has already been used.")
         [] OTHER -> Finish(r, 500, "Server error saving feedback.")]
  /\ UNCHANGED <<tables, nextCodeId, issued, gen, resp, commits, reads>>

\* Line 299: a statement of the transaction throws (a store error).
StmtFail(r) ==
  /\ req[r].pc \in {"begin", "select", "insert", "update", "commit"}
  /\ req' = [req EXCEPT ![r].pc = "rb_error"]
  /\ UNCHANGED <<tables, nextCodeId, issued, gen, resp, commits, reads>>

(***************************************************************************)
(* ADMIN API, token-based revision. Each handler below issues one          *)
(* statement; the statement waits while an open transaction holds a lock   *)
(* on a row it must delete.                                                *)
(***************************************************************************)
\* POST /api/admin/campaigns: upsert of the label.
CreateCampaign(key, id, label) ==
  /\ IF ~adminAuth(key)
       THEN /\ resp' = Unauthorized("campaigns", key)
            /\ UNCHANGED campaigns
       ELSE IF id = "" \/ label = ""
         THEN /\ resp' = Reply("campaigns", key, 400, "campaignId and label required", NoData)
              /\ UNCHANGED campaigns
         ELSE /\ campaigns' = Upsert(campaigns, id, label)
              /\ resp' = Reply("campaigns", key, 200, "", NoData)
  /\ UNCHANGED <<team_leaders, codes, feedback, nextCodeId, issued, req, gen, commits, reads>>

\* ON DELETE CASCADE from campaigns / team_leaders to codes and feedback.
CodesWithout(camp, tl) ==
  Restrict(codes, {c \in DOMAIN codes :
                     codes[c].campaign_id # camp /\ codes[c].team_leader_id # tl})
FeedbackWithout(camp, tl) ==
  SelectSeq(feedback, LAMBDA f : f.campaign_id # camp /\ f.team_leader_id # tl)

\* Mutant of DeleteCycle: the campaign's row goes, its codes and feedback stay.
DeleteCycleNoCascade(key, campaignId) ==
  /\ IF ~adminAuth(key)
       THEN /\ resp' = Unauthorized("delete-cycle", key)
            /\ UNCHANGED campaigns
       ELSE IF campaignId = ""
         THEN /\ resp' = Reply("delete-cycle", key, 400, "campaignId required", NoData)
              /\ UNCHANGED campaigns
         ELSE /\ campaigns' = Restrict(campaigns, DOMAIN campaigns \ {campaignId})
              /\ resp' = Reply("delete-cycle", key, 200, "",
                               Count(IF campaignId \in DOMAIN campaigns
                                              THEN 1 ELSE 0))
  /\ UNCHANGED <<team_leaders, codes, feedback, nextCodeId, issued, req, gen, commits,
                 reads>>

\* POST /api/admin/delete-cycle: DELETE FROM campaigns, cascading.
DeleteCycle(key, campaignId) ==
  /\ IF ~adminAuth(key)
       THEN /\ resp' = Unauthorized("delete-cycle", key)
            /\ UNCHANGED tables
       ELSE IF campaignId = ""
         THEN /\ resp' = Reply("delete-cycle", key, 400, "campaignId required", NoData)
              /\ UNCHANGED tables
         ELSE /\ \A r \in Reqs : ~TxnTouches(r, campaignId, "")
              /\ campaigns' = Restrict(campaigns, DOMAIN campaigns \ {campaignId})
              /\ codes' = CodesWithout(campaignId, "")
              /\ feedback' = FeedbackWithout(campaignId, "")
              /\ UNCHANGED team_leaders
              /\ resp' = Reply("delete-cycle", key, 200, "",
                               Count(IF campaignId \in DOMAIN campaigns
                                              THEN 1 ELSE 0))
  /\ UNCHANGED <<nextCodeId, issued, req, gen, commits, reads>>

\* Mutant of UpsertTeamLeader: ON CONFLICT (id) DO NOTHING.
UpsertTeamLeaderDoNothing(key, name) ==
  /\ IF ~adminAuth(key)
       THEN /\ resp' = Unauthorized("team-leaders", key)
            /\ UNCHANGED team_leaders
       ELSE IF name = ""
         THEN /\ resp' = Reply("team-leaders", key, 400, "name required", NoData)
              /\ UNCHANGED team_leaders
         ELSE /\ team_leaders' = IF name \in DOMAIN team_leaders THEN team_leaders
                                 ELSE Upsert(team_leaders, name, TRUE)
              /\ resp' = Reply("team-leaders", key, 200, "", NoData)
  /\ UNCHANGED <<campaigns, codes, feedback, nextCodeId, issued, req, gen, commits, reads>>

\* POST /api/admin/team-leaders: insert, or reactivate on conflict.
UpsertTeamLeader(key, name) ==
  /\ IF ~adminAuth(key)
       THEN /\ resp' = Unauthorized("team-leaders", key)
            /\ UNCHANGED team_leaders
       ELSE IF name = ""
         THEN /\ resp' = Reply("team-leaders", key, 400, "name required", NoData)
              /\ UNCHANGED team_leaders
         ELSE /\ team_leaders' = Upsert(team_leaders, name, TRUE)
              /\ resp' = Reply("team-leaders", key, 200, "", NoData)
  /\ UNCHANGED <<campaigns, codes, feedback, nextCodeId, issued, req, gen, commits, reads>>

\* POST /api/admin/team-leaders/deactivate: UPDATE ... SET active = false.
DeactivateTeamLeader(key, name) ==
  /\ IF ~adminAuth(key)
       THEN /\ resp' = Unauthorized("team-leaders/deactivate", key)
            /\ UNCHANGED team_leaders
       ELSE IF name = ""
         THEN /\ resp' = Reply("team-leaders/deactivate", key, 400, "name required", NoData)
              /\ UNCHANGED team_leaders
         ELSE /\ team_leaders' = [n \in DOMAIN team_leaders |->
                                    IF n = name THEN FALSE ELSE team_leaders[n]]
              /\ resp' = Reply("team-leaders/deactivate", key, 200, "",
                               Count(IF name \in DOMAIN team_leaders
                                               THEN 1 ELSE 0))
  /\ UNCHANGED <<campaigns, codes, feedback, nextCodeId, issued, req, gen, commits, reads>>

\* POST /api/admin/team-leaders/delete: DELETE FROM team_leaders, cascading.
DeleteTeamLeader(key, name) ==
  /\ IF ~adminAuth(key)
       THEN /\ resp' = Unauthorized("team-leaders/delete", key)
            /\ UNCHANGED tables
       ELSE IF name = ""
         THEN /\ resp' = Reply("team-leaders/delete", key, 400, "name required", NoData)
              /\ UNCHANGED tables
         ELSE /\ \A r \in Reqs : ~TxnTouches(r, "", name)
              /\ team_leaders' = Restrict(team_leaders, DOMAIN team_leaders \ {name})
              /\ codes' = CodesWithout("", name)
              /\ feedback' = FeedbackWithout("", name)
              /\ UNCHANGED campaigns
              /\ resp' = Reply("team-leaders/delete", key, 200, "",
                               Count(IF name \in DOMAIN team_leaders
                                              THEN 1 ELSE 0))
  /\ UNCHANGED <<nextCodeId, issued, req, gen, commits, reads>>

\* Mutant of DeleteFeedback: the codes of the deleted rows' pair are freed.
DeleteFeedbackFreesCodes(key, campaignId, teamLeaderId) ==
  /\ adminAuth(key)
  /\ feedback' = SelectSeq(feedback, LAMBDA f : ~(f.campaign_id = campaignId
                                                  /\ f.team_leader_id = teamLeaderId))
  /\ codes' = [c \in DOMAIN codes |->
                 IF codes[c].campaign_id = campaignId
                    /\ codes[c].team_leader_id = teamLeaderId
                   THEN [codes[c] EXCEPT !.used = FALSE, !.used_at = 0]
                   ELSE codes[c]]
  /\ resp' = Reply("delete-feedback", key, 200, "", NoData)
  /\ UNCHANGED <<campaigns, team_leaders, nextCodeId, issued, req, gen, commits, reads>>
\* POST /api/admin/delete-feedback: DELETE FROM feedback for one pair.
DeleteFeedback(key, campaignId, teamLeaderId) ==
  /\ IF ~adminAuth(key)
       THEN /\ resp' = Unauthorized("delete-feedback", key)
            /\ UNCHANGED feedback
       ELSE IF campaignId = "" \/ teamLeaderId = ""
         THEN /\ resp' = Reply("delete-feedback", key, 400,
                               "campaignId and teamLeaderId required", NoData)
              /\ UNCHANGED feedback
         ELSE LET keep(f) == ~(f.campaign_id = campaignId
                               /\ f.team_leader_id = teamLeaderId) IN
              /\ feedback' = SelectSeq(feedback, keep)
              /\ resp' = Reply("delete-feedback", key, 200, "",
                               Count(Len(feedback) - Len(SelectSeq(feedback, keep))))
  /\ UNCHANGED <<campaigns, team_leaders, codes, nextCodeId, issued, req, gen, commits, reads>>

(***************************************************************************)
(* POST /api/admin/generate-codes, token-based revision (lines 398-435).   *)
(***************************************************************************)
GenDone(status, error, out) ==
  [gen EXCEPT !.pc = "done", !.status = status, !.error = error, !.codes = out]
Range(q) == {q[i] : i \in 1..Len(q)}
HasDuplicates(q) == \E i, j \in 1..Len(q) : i # j /\ q[i] = q[j]
StoredCodes == {codes[c].code : c \in DOMAIN codes}
CodeRow(code, tl, camp) ==
  [code |-> code, team_leader_id |-> tl, campaign_id |-> camp, used |-> FALSE,
   used_at |-> 0]

\* Lines 398-405: adminAuth and the validation of the body.
GenRecv(key, campaignId, teamLeaderId, count) ==
  /\ rev = "token"
  /\ gen.pc \in {"idle", "done"}
  /\ nextCodeId + count - 1 <= MaxCodes \/ count > MaxCount
  /\ LET fresh == [IdleGen EXCEPT !.campaignId = campaignId,
                                  !.teamLeaderId = teamLeaderId, !.count = count,
                                  !.before = StoredCodes, !.key = key,
                                  !.inactive = /\ teamLeaderId \in DOMAIN team_leaders
                                               /\ ~team_leaders[teamLeaderId]] IN
     gen' = IF ~adminAuth(key)
              THEN [fresh EXCEPT !.pc = "done", !.status = 401, !.error = "unauthorized"]
            ELSE IF campaignId = "" \/ teamLeaderId = "" \/ count < 1 \/ count > MaxCount
              THEN [fresh EXCEPT !.pc = "done", !.status = 400,
                                 !.error = "campaignId, teamLeaderId, count required"]
            ELSE [fresh EXCEPT !.pc = "campaign"]
  /\ UNCHANGED <<tables, nextCodeId, issued, req, resp, commits, reads>>

\* Lines 408-409: SELECT 1 FROM campaigns WHERE id = $1.
GenCheckCampaign ==
  /\ gen.pc = "campaign"
  /\ gen' = IF gen.campaignId \notin DOMAIN campaigns
              THEN GenDone(400, "Campaign not found", <<>>)
              ELSE [gen EXCEPT !.pc = "leader"]
  /\ UNCHANGED <<tables, nextCodeId, issued, req, resp, commits, reads>>

\* Lines 411-423: the active team leader is looked up, then the batch of
\* count random codes is drawn.
GenCheckLeader(batch) ==
  /\ gen.pc = "leader"
  /\ Len(batch) = gen.count
  /\ gen' = IF ~(gen.teamLeaderId \in DOMAIN team_leaders
                 /\ team_leaders[gen.teamLeaderId])
              THEN GenDone(400, "Team leader not found / inactive", <<>>)
              ELSE [gen EXCEPT !.pc = "insert", !.batch = batch]
  /\ UNCHANGED <<tables, nextCodeId, issued, req, resp, commits, reads>>

\* Lines 425-434: one INSERT of all the rows. A unique violation (a code that
\* is stored already or twice in the batch) or a foreign-key violation fails
\* the statement, and the handler answers 500.
GenInsert ==
  /\ gen.pc = "insert"
  /\ IF \/ HasDuplicates(gen.batch)
        \/ Range(gen.batch) \cap StoredCodes # {}
        \/ gen.campaignId \notin DOMAIN campaigns
        \/ gen.teamLeaderId \notin DOMAIN team_leaders
       THEN /\ gen' = [GenDone(500, "DB error generating codes.", <<>>) EXCEPT
                         !.caught = IF \/ HasDuplicates(gen.batch)
                                       \/ Range(gen.batch) \cap StoredCodes # {}
                                      THEN "unique" ELSE "fk"]
            /\ UNCHANGED <<codes, nextCodeId>>
       ELSE /\ codes' = [c \in DOMAIN codes \cup (nextCodeId..(nextCodeId + gen.count - 1)) |->
                           IF c \in DOMAIN codes THEN codes[c]
                           ELSE CodeRow(gen.batch[c - nextCodeId + 1],
                                        gen.teamLeaderId, gen.campaignId)]
            /\ nextCodeId' = nextCodeId + gen.count
            /\ gen' = GenDone(200, "", gen.batch)
  /\ UNCHANGED <<campaigns, team_leaders, feedback, issued, req, resp, commits, reads>>

(***************************************************************************)
(* calcOverallScore of the code-based revision (lines 965-972): the mean   *)
(* of the values whose Number() is not NaN, null when there is none.       *)
(***************************************************************************)
calcOverallScore(scores) ==
  LET K == {q \in DOMAIN scores : ~Number(scores[q]).nan}
      n == [q \in K |-> Number(scores[q]).n] IN
  IF K = {} THEN NoScore ELSE Ratio(SumOver(n, K), Cardinality(K))

(***************************************************************************)
(* Admin reads, token-based revision.                                      *)
(***************************************************************************)
\* WHERE campaign_id = $1 AND team_leader_id = $2, in created_at order.
PairRows(campaignId, teamLeaderId) ==
  SelectSeq(feedback, LAMBDA f : f.campaign_id = campaignId
                                 /\ f.team_leader_id = teamLeaderId)
Reverse(q) == [i \in 1..Len(q) |-> q[Len(q) + 1 - i]]
Asking(campaignId, teamLeaderId) ==
  [codeId |-> 0, campaignId |-> campaignId, teamLeaderId |-> teamLeaderId]
DetailBody(campaignId, teamLeaderId, n, comments) ==
  [Body(EmptyStr, Asking(campaignId, teamLeaderId), 0, "", n)
     EXCEPT !.comments = comments]
AiBody(campaignId, teamLeaderId, summary) ==
  [Body(EmptyStr, Asking(campaignId, teamLeaderId), 0, "", 0)
     EXCEPT !.summary = summary]

\* Lines 523-525 and 681-683: rows.map(x => safeText(x.<text>)).filter(Boolean).
CommentsOf(rows) ==
  [shown |-> TRUE,
   strengths |-> SelectSeq([i \in 1..Len(rows) |-> safeText(rows[i].strengths_text)], Truthy),
   devs |-> SelectSeq([i \in 1..Len(rows) |-> safeText(rows[i].dev_text)], Truthy),
   others |-> SelectSeq([i \in 1..Len(rows) |-> safeText(rows[i].other_text)], Truthy)]

\* Mutant of TooFew: the gate opens at two responses.
TooFewBelowTwo(rowCount) == rowCount < 2

\* Lines 522 and 672: the visibility gate.
TooFew(rowCount) == rowCount < MIN_COMMENTS_FOR_DISPLAY

\* GET /api/admin/detail (lines 478-552). err: the store fails a query.
Detail(key, campaignId, teamLeaderId, err) ==
  LET rows == Reverse(PairRows(campaignId, teamLeaderId))
      responseCount == Len(rows)
      ask == DetailBody(campaignId, teamLeaderId, 0, NoComments) IN
  /\ rev = "token"
  /\ resp' =
       IF ~adminAuth(key) THEN Unauthorized("detail", key)
       ELSE IF campaignId = "" \/ teamLeaderId = ""
         THEN Reply("detail", key, 400, "campaignId and teamLeaderId required", ask)
       ELSE IF err THEN Reply("detail", key, 500, "DB error loading detail.", ask)
       ELSE IF campaignId \notin DOMAIN campaigns
         THEN Reply("detail", key, 404, "Cycle not found.", ask)
       ELSE Reply("detail", key, 200, "",
                  [DetailBody(campaignId, teamLeaderId, responseCount,
                              IF ~TooFew(responseCount) THEN CommentsOf(rows)
                              ELSE NoComments)
                     EXCEPT !.agg = Agg(campaignId, rows)])
  /\ UNCHANGED <<tables, nextCodeId, issued, req, gen, commits, reads>>

\* The comment lines of a prompt (lines 600-650: buildManagerPrompt, buildTlPrompt).
Labelled(label, texts) == [i \in 1..Len(texts) |-> [label |-> label, text |-> texts[i]]]
PromptOf(campaignId, teamLeaderId, comments) ==
  [campaignId |-> campaignId, teamLeaderId |-> teamLeaderId,
   parts |-> Labelled("Strengths", comments.strengths)
             \o Labelled("Development", comments.devs)
             \o Labelled("Other", comments.others)]

\* GET /api/admin/ai-summary (lines 652-705). configured: the openai client
\* exists; err: the store fails the query; fails: the service call throws.
AiSummary(key, campaignId, teamLeaderId, configured, err, fails) ==
  LET rows == Reverse(PairRows(campaignId, teamLeaderId))
      ask == AiBody(campaignId, teamLeaderId, "")
      sends == /\ adminAuth(key) /\ configured /\ ~err
               /\ campaignId # "" /\ teamLeaderId # ""
               /\ ~TooFew(Len(rows)) IN
  /\ rev = "token"
  /\ resp' =
       IF ~adminAuth(key) THEN Unauthorized("ai-summary", key)
       ELSE IF ~configured
         THEN Reply("ai-summary", key, 400, "AI is not configured on the server", ask)
       ELSE IF campaignId = "" \/ teamLeaderId = ""
         THEN Reply("ai-summary", key, 400, "campaignId and teamLeaderId required", ask)
       ELSE IF err THEN Reply("ai-summary", key, 500, "AI summary failed.", ask)
       ELSE IF TooFew(Len(rows))
         THEN Reply("ai-summary", key, 200, "", AiBody(campaignId, teamLeaderId, "hidden"))
       ELSE IF fails THEN Reply("ai-summary", key, 500, "AI summary failed.", ask)
       ELSE Reply("ai-summary", key, 200, "", AiBody(campaignId, teamLeaderId, "generated"))
  /\ prompt' = IF sends THEN PromptOf(campaignId, teamLeaderId, CommentsOf(rows))
               ELSE NoPrompt
  /\ UNCHANGED <<tables, nextCodeId, issued, req, gen, commits, codeRev>>

\* GET /api/admin/campaigns (lines 312-315).
ListCampaigns(key) ==
  /\ rev = "token"
  /\ resp' = IF ~adminAuth(key) THEN Unauthorized("campaigns-list", key)
             ELSE Reply("campaigns-list", key, 200, "",
                        [NoData EXCEPT !.rows = [id \in DOMAIN campaigns |->
                                                   [label |-> campaigns[id]]]])
  /\ UNCHANGED <<tables, nextCodeId, issued, req, gen, commits, reads>>

\* GET /api/admin/team-leaders (lines 349-352).
ListTeamLeaders(key) ==
  /\ rev = "token"
  /\ resp' = IF ~adminAuth(key) THEN Unauthorized("team-leaders-list", key)
             ELSE Reply("team-leaders-list", key, 200, "",
                        [NoData EXCEPT !.rows = [id \in DOMAIN team_leaders |->
                                                   [active |-> team_leaders[id]]]])
  /\ UNCHANGED <<tables, nextCodeId, issued, req, gen, commits, reads>>

\* Lines 446-461: one row per active team leader (the rows come ordered by
\* id; they are keyed by id here), LEFT JOINed with the cycle's feedback.
OverviewRows(campaignId) ==
  [id \in {n \in DOMAIN team_leaders : team_leaders[n]} |->
     LET rows == PairRows(campaignId, id) IN
     [responseCount |-> Len(rows),
      avgScore |-> IF Len(rows) = 0 THEN Ratio(0, 1) ELSE avgOverall(rows)]]

\* GET /api/admin/overview (lines 438-475).
Overview(key, campaignId, err) ==
  /\ rev = "token"
  /\ resp' =
       IF ~adminAuth(key) THEN Unauthorized("overview", key)
       ELSE IF campaignId = ""
         THEN Reply("overview", key, 400, "campaignId required", NoData)
       ELSE IF err THEN Reply("overview", key, 500, "DB error loading overview.", NoData)
       ELSE IF campaignId \notin DOMAIN campaigns
         THEN Reply("overview", key, 404, "Cycle not found.", NoData)
       ELSE Reply("overview", key, 200, "",
                  [NoData EXCEPT !.rows = OverviewRows(campaignId)])
  /\ UNCHANGED <<tables, nextCodeId, issued, req, gen, commits, reads>>

\* GET /api/admin/compare (lines 710-828). The two getAgg queries run one
\* after the other; nothing is taken to run between them here. includeAi:
\* the query asks for the change summary; configured: the openai client
\* exists; err: the store fails a query; fails: the service call throws.
Compare(key, teamLeaderId, fromCycle, toCycle, includeAi, configured, err, fails) ==
  LET fromAgg == Agg(fromCycle, PairRows(fromCycle, teamLeaderId))
      toAgg == Agg(toCycle, PairRows(toCycle, teamLeaderId))
      ask == [NoData EXCEPT !.payload = Asking(toCycle, teamLeaderId)]
      valid == adminAuth(key) /\ teamLeaderId # "" /\ fromCycle # "" /\ toCycle # ""
      sends == valid /\ ~err /\ includeAi /\ configured IN
  /\ rev = "token"
  /\ resp' =
       IF ~adminAuth(key) THEN Unauthorized("compare", key)
       ELSE IF ~valid
         THEN Reply("compare", key, 400, "teamLeaderId, fromCycle, toCycle required", ask)
       ELSE IF err \/ (sends /\ fails)
         THEN Reply("compare", key, 500, "DB error comparing cycles.", ask)
       ELSE Reply("compare", key, 200, "",
                  [ask EXCEPT !.compare =
                     [from |-> fromAgg, to |-> toAgg,
                      overallDelta |-> Delta(fromAgg.avgOverall, toAgg.avgOverall),
                      deltas |-> deltas(fromAgg, toAgg),
                      aiChangeSummary |-> IF ~includeAi THEN ""
                                          ELSE IF ~configured THEN "not configured"
                                          ELSE "generated"]])
  /\ prompt' = IF sends
                 THEN [campaignId |-> toCycle, teamLeaderId |-> teamLeaderId,
                       parts |-> <<>>]
               ELSE NoPrompt
  /\ UNCHANGED <<tables, nextCodeId, issued, req, gen, commits, codeRev>>

(***************************************************************************)
(* The pooled connection of the code-based revision (pool, line 868).      *)
(* Every statement goes through pool.query, which takes an idle client and *)
(* releases it when the statement returns. Statements are issued one at a  *)
(* time here, so the pool holds one client and every statement runs in    *)
(* that client's session: BEGIN opens a transaction block in it, a failing *)
(* statement aborts the block, and every statement in an aborted block     *)
(* fails until COMMIT or ROLLBACK ends it.                                 *)
(***************************************************************************)
Aborted == conn.txn = "aborted"
\* BEGIN: opens a block unless one is open (then only a warning).
BeginBlock == IF conn.txn = "none" THEN [txn |-> "open", saved |-> tables] ELSE conn
\* A statement fails (a constraint, or the block is aborted already).
StatementFailed == IF conn.txn = "open" THEN [conn EXCEPT !.txn = "aborted"] ELSE conn
\* COMMIT (keep) or ROLLBACK: the block ends; a rolled back block, and a
\* committed aborted block, leave the tables as they were at BEGIN.
EndsBlock(keep) ==
  /\ conn' = NoConn
  /\ IF conn.txn = "none" \/ (keep /\ conn.txn = "open")
       THEN UNCHANGED tables
       ELSE /\ campaigns' = conn.saved[1]
            /\ team_leaders' = conn.saved[2]
            /\ codes' = conn.saved[3]
            /\ feedback' = conn.saved[4]

(***************************************************************************)
(* POST /api/submit-feedback, code-based revision (lines 1060-1147).       *)
(***************************************************************************)
FinishC(r, status, error) ==
  [IdleReq EXCEPT !.pc = "done", !.status = status, !.error = error,
                  !.payload = req[r].payload, !.code = req[r].code]
CodesNamed(code) == {c \in DOMAIN codes : Plain(codes[c].code) = code}

\* Lines 1061-1075: the destructured body, the required fields, the overall score.
SubmitRecvC(r, code, campaignId, teamLeaderId, b) ==
  /\ rev = "code"
  /\ req[r].pc \in {"idle", "done"}
  /\ req' = [req EXCEPT ![r] =
       IF ~Truthy(code) \/ campaignId = "" \/ teamLeaderId = ""
         THEN [IdleReq EXCEPT !.pc = "done", !.status = 400,
                              !.error = "Missing required fields."]
         ELSE [IdleReq EXCEPT !.pc = "c_select", !.code = code,
                              !.payload = Asking(campaignId, teamLeaderId),
                              !.body = b,
                              !.overall = calcOverallScore(b.scores)]]
  /\ UNCHANGED <<tables, nextCodeId, issued, gen, resp, commits, reads>>

\* Lines 1079-1088: SELECT id, used FROM codes WHERE code = $1.
SubmitSelectC(r) ==
  /\ req[r].pc = "c_select"
  /\ LET M == CodesNamed(Trim(req[r].code)) IN
     req' = [req EXCEPT ![r] =
       IF Aborted THEN [req[r] EXCEPT !.pc = "c_rollback"]
       ELSE IF M = {} THEN FinishC(r, 400, "Invalid code.")
       ELSE IF \E c \in M : codes[c].used THEN FinishC(r, 400, "Code already used.")
       ELSE [req[r] EXCEPT !.pc = "c_begin"]]
  /\ UNCHANGED <<tables, nextCodeId, issued, gen, resp, commits, reads>>

\* Line 1090: pool.query("BEGIN").
SubmitBeginC(r) ==
  /\ req[r].pc = "c_begin"
  /\ IF Aborted
       THEN /\ req' = [req EXCEPT ![r].pc = "c_rollback"]
            /\ UNCHANGED conn
       ELSE /\ req' = [req EXCEPT ![r].pc = "c_insert"]
            /\ conn' = BeginBlock
  /\ UNCHANGED <<tables, nextCodeId, issued, gen, resp, commits, rev, adm, prompt>>

\* The row of lines 1093-1133: the q columns are INTEGER, an empty text is
\* stored as null.
OrNull(text) == IF Truthy(text) THEN text ELSE EmptyStr
FeedbackRowC(r) ==
  [code |-> Trim(req[r].code).s,
   campaign_id |-> req[r].payload.campaignId,
   team_leader_id |-> req[r].payload.teamLeaderId,
   scores_json |-> Restrict(req[r].body.scores, DOMAIN req[r].body.scores \cap {"q2"}),
   overall_score |-> req[r].overall,
   strengths_text |-> OrNull(req[r].body.strengthsText),
   dev_text |-> OrNull(req[r].body.devText),
   other_text |-> OrNull(req[r].body.otherText)]

\* Lines 1093-1133: INSERT INTO feedback. It fails in an aborted block, on a
\* value that is no integer, and on a code that codes does not hold. (The
\* table is capped at MaxRows rows.)
SubmitInsertC(r) ==
  /\ req[r].pc = "c_insert"
  /\ Len(feedback) < MaxRows
  /\ IF \/ Aborted
        \/ \E q \in DOMAIN req[r].body.scores \cap {"q2"} : req[r].body.scores[q].t = "text"
        \/ CodesNamed(Trim(req[r].code)) = {}
       THEN /\ req' = [req EXCEPT ![r].pc = "c_rollback"]
            /\ conn' = StatementFailed
            /\ UNCHANGED feedback
       ELSE /\ req' = [req EXCEPT ![r].pc = "c_update"]
            /\ feedback' = Append(feedback, FeedbackRowC(r))
            /\ UNCHANGED conn
  /\ UNCHANGED <<campaigns, team_leaders, codes, nextCodeId, issued, gen, resp,
                 commits, rev, adm, prompt>>

\* Lines 1136-1139: UPDATE codes SET used = TRUE, used_at = NOW() WHERE code = $1.
SubmitUpdateC(r) ==
  /\ req[r].pc = "c_update"
  /\ IF Aborted
       THEN /\ req' = [req EXCEPT ![r].pc = "c_rollback"]
            /\ UNCHANGED codes
       ELSE /\ req' = [req EXCEPT ![r].pc = "c_commit"]
            /\ codes' = [c \in DOMAIN codes |->
                           IF c \in CodesNamed(Trim(req[r].code))
                             THEN [codes[c] EXCEPT !.used = TRUE, !.used_at = 1]
                             ELSE codes[c]]
  /\ UNCHANGED <<campaigns, team_leaders, feedback, nextCodeId, issued, gen, resp,
                 commits, reads>>

\* Lines 1141-1142: pool.query("COMMIT"), then { ok: true }.
SubmitCommitC(r) ==
  /\ req[r].pc = "c_commit"
  /\ EndsBlock(TRUE)
  /\ req' = [req EXCEPT ![r] = FinishC(r, 200, "")]
  /\ UNCHANGED <<nextCodeId, issued, gen, resp, commits, rev, adm, prompt>>

\* Lines 1143-1146: the catch: pool.query("ROLLBACK"), then the 500.
SubmitRollbackC(r) ==
  /\ req[r].pc = "c_rollback"
  /\ EndsBlock(FALSE)
  /\ req' = [req EXCEPT ![r] = FinishC(r, 500, "Error saving feedback.")]
  /\ UNCHANGED <<nextCodeId, issued, gen, resp, commits, rev, adm, prompt>>

(***************************************************************************)
(* POST /api/admin/delete-feedback, code-based revision (lines 1452-1490). *)
(***************************************************************************)
adminAuthC(key) == ~(key = "" \/ key # ADMIN_PASSWORD)

\* Lines 1452-1456: adminAuth and the required fields.
DeleteFeedbackRecvC(key, campaignId, teamLeaderId) ==
  /\ rev = "code"
  /\ adm["delete-feedback"].pc = "idle"
  /\ IF ~adminAuthC(key)
       THEN /\ resp' = Unauthorized("delete-feedback-c", key)
            /\ UNCHANGED adm
       ELSE IF campaignId = "" \/ teamLeaderId = ""
         THEN /\ resp' = Reply("delete-feedback-c", key, 400,
                               "campaignId and teamLeaderId required.", NoData)
              /\ UNCHANGED adm
         ELSE /\ adm' = [adm EXCEPT !["delete-feedback"] =
                           [IdleAdm EXCEPT !.pc = "begin", !.key = key,
                                           !.campaignId = campaignId,
                                           !.teamLeaderId = teamLeaderId]]
              /\ UNCHANGED resp
  /\ UNCHANGED <<tables, nextCodeId, issued, req, gen, commits, rev, conn, prompt>>

\* Line 1459: pool.query("BEGIN").
DeleteFeedbackBeginC ==
  /\ adm["delete-feedback"].pc = "begin"
  /\ IF Aborted
       THEN /\ adm' = [adm EXCEPT !["delete-feedback"].pc = "rollback"]
            /\ UNCHANGED conn
       ELSE /\ adm' = [adm EXCEPT !["delete-feedback"].pc = "delete"]
            /\ conn' = BeginBlock
  /\ UNCHANGED <<tables, nextCodeId, issued, req, gen, resp, commits, rev, prompt>>

\* Lines 1460-1471: DELETE FROM feedback ... RETURNING code.
DeleteFeedbackDeleteC ==
  LET a == adm["delete-feedback"]
      gone(f) == f.campaign_id = a.campaignId /\ f.team_leader_id = a.teamLeaderId
      rows == SelectSeq(feedback, gone)
      codesToReset == {rows[i].code : i \in 1..Len(rows)} IN
  /\ a.pc = "delete"
  /\ IF Aborted
       THEN /\ adm' = [adm EXCEPT !["delete-feedback"].pc = "rollback"]
            /\ UNCHANGED feedback
       ELSE /\ feedback' = SelectSeq(feedback, LAMBDA f : ~gone(f))
            /\ adm' = [adm EXCEPT !["delete-feedback"] =
                         [a EXCEPT !.pc = IF codesToReset = {} THEN "commit" ELSE "update",
                                   !.count = Len(rows),
                                   !.deleted = codesToReset]]
  /\ UNCHANGED <<campaigns, team_leaders, codes, nextCodeId, issued, req, gen, resp,
                 commits, rev, conn, prompt>>

\* Lines 1473-1482: UPDATE codes SET used = FALSE, used_at = NULL WHERE code = ANY($1).
DeleteFeedbackUpdateC ==
  LET a == adm["delete-feedback"] IN
  /\ a.pc = "update"
  /\ IF Aborted
       THEN /\ adm' = [adm EXCEPT !["delete-feedback"].pc = "rollback"]
            /\ UNCHANGED codes
       ELSE /\ adm' = [adm EXCEPT !["delete-feedback"].pc = "commit"]
            /\ codes' = [c \in DOMAIN codes |->
                           IF codes[c].code \in a.deleted
                             THEN [codes[c] EXCEPT !.used = FALSE, !.used_at = 0]
                             ELSE codes[c]]
  /\ UNCHANGED <<campaigns, team_leaders, feedback, nextCodeId, issued, req, gen, resp,
                 commits, rev, conn, prompt>>

\* Lines 1484-1485: pool.query("COMMIT"), then { ok: true, deletedRows }.
DeleteFeedbackCommitC ==
  LET a == adm["delete-feedback"] IN
  /\ a.pc = "commit"
  /\ EndsBlock(TRUE)
  /\ resp' = Reply("delete-feedback-c", a.key, 200, "", Count(a.count))
  /\ adm' = [adm EXCEPT !["delete-feedback"] = IdleAdm]
  /\ UNCHANGED <<nextCodeId, issued, req, gen, commits, rev, prompt>>

\* Lines 1486-1489: the catch: pool.query("ROLLBACK"), then the 500.
DeleteFeedbackRollbackC ==
  LET a == adm["delete-feedback"] IN
  /\ a.pc = "rollback"
  /\ EndsBlock(FALSE)
  /\ resp' = Reply("delete-feedback-c", a.key, 500, "Error deleting feedback.", NoData)
  /\ adm' = [adm EXCEPT !["delete-feedback"] = IdleAdm]
  /\ UNCHANGED <<nextCodeId, issued, req, gen, commits, rev, prompt>>

(***************************************************************************)
(* POST /api/admin/generate-codes, code-based revision (lines 1239-1278).  *)
(***************************************************************************)
\* Lines 1239-1244: adminAuth, the required fields, n clamped to 1..500.
GenRecvC(key, campaignId, teamLeaderId, count) ==
  /\ rev = "code"
  /\ gen.pc \in {"idle", "done"}
  /\ LET n == IF count < 1 THEN 1 ELSE IF count > MaxCount THEN MaxCount ELSE count
         fresh == [IdleGen EXCEPT !.campaignId = campaignId,
                                  !.teamLeaderId = teamLeaderId, !.count = count,
                                  !.before = StoredCodes, !.key = key,
                                  !.inactive = /\ teamLeaderId \in DOMAIN team_leaders
                                               /\ ~team_leaders[teamLeaderId]] IN
     gen' = IF ~adminAuthC(key)
              THEN [fresh EXCEPT !.pc = "done", !.status = 401, !.error = "unauthorized"]
            ELSE IF campaignId = "" \/ teamLeaderId = "" \/ count = 0
              THEN [fresh EXCEPT !.pc = "done", !.status = 400, !.error = "Missing fields."]
            ELSE [fresh EXCEPT !.pc = "c_begin", !.count = n]
  /\ UNCHANGED <<tables, nextCodeId, issued, req, resp, commits, reads>>

\* Line 1248: pool.query("BEGIN"); when it throws the outer catch runs.
GenBeginC ==
  /\ gen.pc = "c_begin"
  /\ IF Aborted
       THEN /\ gen' = [gen EXCEPT !.pc = "c_rollback", !.caught = "aborted"]
            /\ UNCHANGED conn
       ELSE /\ gen' = [gen EXCEPT !.pc = "c_insert"]
            /\ conn' = BeginBlock
  /\ UNCHANGED <<tables, nextCodeId, issued, req, resp, commits, rev, adm, prompt>>

\* Lines 1250-1269: one turn of while (!inserted): randomCode() gives t and
\* the INSERT runs. Whatever the INSERT throws (the block is aborted, the code
\* is stored already, the campaign or the team leader does not exist) is
\* caught and the loop goes round again. (codes_id_seq is capped at MaxCodes.)
GenInsertC(t) ==
  LET thrown == IF Aborted THEN "aborted"
                ELSE IF t \in StoredCodes THEN "unique"
                ELSE IF \/ gen.campaignId \notin DOMAIN campaigns
                        \/ gen.teamLeaderId \notin DOMAIN team_leaders THEN "fk"
                ELSE "" IN
  /\ gen.pc = "c_insert"
  /\ IF thrown # ""
       THEN /\ gen' = [gen EXCEPT !.caught = thrown]
            /\ conn' = StatementFailed
            /\ UNCHANGED <<codes, nextCodeId>>
       ELSE /\ nextCodeId <= MaxCodes
            /\ codes' = Upsert(codes, nextCodeId,
                               CodeRow(t, gen.teamLeaderId, gen.campaignId))
            /\ nextCodeId' = nextCodeId + 1
            /\ gen' = [gen EXCEPT !.codes = Append(gen.codes, t),
                                  !.pc = IF Len(gen.codes) + 1 = gen.count
                                           THEN "c_commit" ELSE "c_insert"]
            /\ UNCHANGED conn
  /\ UNCHANGED <<campaigns, team_leaders, feedback, issued, req, resp, commits,
                 rev, adm, prompt>>

\* Lines 1271-1272: pool.query("COMMIT"), then { codes }.
GenCommitC ==
  /\ gen.pc = "c_commit"
  /\ EndsBlock(TRUE)
  /\ gen' = [gen EXCEPT !.pc = "done", !.status = 200]
  /\ UNCHANGED <<nextCodeId, issued, req, resp, commits, rev, adm, prompt>>

\* Lines 1273-1277: the outer catch: pool.query("ROLLBACK"), then the 500.
GenRollbackC ==
  /\ gen.pc = "c_rollback"
  /\ EndsBlock(FALSE)
  /\ gen' = [gen EXCEPT !.pc = "done", !.status = 500,
                        !.error = "Error generating codes.", !.codes = <<>>]
  /\ UNCHANGED <<nextCodeId, issued, req, resp, commits, rev, adm, prompt>>

(***************************************************************************)
(* GET /api/admin/detail, code-based revision (lines 1315-1383): a COUNT   *)
(* query, then, when the count reaches the threshold, a second query for   *)
(* the texts.                                                              *)
(***************************************************************************)
\* Lines 1360-1368: the texts that are truthy, as stored.
CommentsOfC(rows) ==
  [shown |-> TRUE,
   strengths |-> SelectSeq([i \in 1..Len(rows) |-> rows[i].strengths_text], Truthy),
   devs |-> SelectSeq([i \in 1..Len(rows) |-> rows[i].dev_text], Truthy),
   others |-> SelectSeq([i \in 1..Len(rows) |-> rows[i].other_text], Truthy)]

\* Lines 1316-1347: adminAuth, the required fields, the COUNT(*) query.
DetailCountC(key, campaignId, teamLeaderId) ==
  LET responseCount == Len(PairRows(campaignId, teamLeaderId))
      ask == DetailBody(campaignId, teamLeaderId, 0, NoComments) IN
  /\ rev = "code"
  /\ adm["detail"].pc = "idle"
  /\ IF ~adminAuthC(key)
       THEN resp' = Unauthorized("detail-c", key) /\ UNCHANGED adm
     ELSE IF campaignId = "" \/ teamLeaderId = ""
       THEN /\ resp' = Reply("detail-c", key, 400,
                             "campaignId and teamLeaderId required.", ask)
            /\ UNCHANGED adm
     ELSE IF Aborted
       THEN /\ resp' = Reply("detail-c", key, 500, "DB error fetching detail.", ask)
            /\ UNCHANGED adm
     ELSE IF responseCount >= MIN_COMMENTS_FOR_DISPLAY
       THEN /\ adm' = [adm EXCEPT !["detail"] =
                         [IdleAdm EXCEPT !.pc = "comments", !.key = key,
                                         !.campaignId = campaignId,
                                         !.teamLeaderId = teamLeaderId,
                                         !.count = responseCount]]
            /\ UNCHANGED resp
     ELSE /\ resp' = Reply("detail-c", key, 200, "",
                           DetailBody(campaignId, teamLeaderId, responseCount, NoComments))
          /\ UNCHANGED adm
  /\ UNCHANGED <<tables, nextCodeId, issued, req, gen, commits, rev, conn, prompt>>

\* Lines 1348-1382: the second query and the response.
DetailCommentsC ==
  LET a == adm["detail"] IN
  /\ a.pc = "comments"
  /\ resp' =
       IF Aborted
         THEN Reply("detail-c", a.key, 500, "DB error fetching detail.",
                    DetailBody(a.campaignId, a.teamLeaderId, 0, NoComments))
         ELSE Reply("detail-c", a.key, 200, "",
                    DetailBody(a.campaignId, a.teamLeaderId, a.count,
                               CommentsOfC(PairRows(a.campaignId, a.teamLeaderId))))
  /\ adm' = [adm EXCEPT !["detail"] = IdleAdm]
  /\ UNCHANGED <<tables, nextCodeId, issued, req, gen, commits, rev, conn, prompt>>

(***************************************************************************)
(* GET /api/admin/ai-summary, code-based revision (lines 1386-1449).       *)
(***************************************************************************)
\* Lines 1412-1417: the truthy texts, row by row.
RECURSIVE PartsC(_)
PartsC(rows) ==
  IF rows = <<>> THEN <<>>
  ELSE LET r == Head(rows) IN
       (IF Truthy(r.strengths_text)
          THEN <<[label |-> "Strengths", text |-> r.strengths_text]>> ELSE <<>>)
       \o (IF Truthy(r.dev_text)
             THEN <<[label |-> "Development", text |-> r.dev_text]>> ELSE <<>>)
       \o (IF Truthy(r.other_text)
             THEN <<[label |-> "Other", text |-> r.other_text]>> ELSE <<>>)
       \o PartsC(Tail(rows))

\* Line 1406: the visibility gate.
TooFewC(rowCount) == rowCount = 0 \/ rowCount < MIN_COMMENTS_FOR_DISPLAY

AiSummaryC(key, campaignId, teamLeaderId, configured, fails) ==
  LET rows == PairRows(campaignId, teamLeaderId)
      ask == AiBody(campaignId, teamLeaderId, "")
      sends == /\ adminAuthC(key) /\ configured /\ ~Aborted
               /\ campaignId # "" /\ teamLeaderId # ""
               /\ ~TooFewC(Len(rows)) IN
  /\ rev = "code"
  /\ resp' =
       IF ~adminAuthC(key) THEN Unauthorized("ai-summary-c", key)
       ELSE IF ~configured
         THEN Reply("ai-summary-c", key, 500, "OpenAI not configured on server.", ask)
       ELSE IF campaignId = "" \/ teamLeaderId = ""
         THEN Reply("ai-summary-c", key, 400, "campaignId and teamLeaderId required.", ask)
       ELSE IF Aborted
         THEN Reply("ai-summary-c", key, 500, "Error generating AI summary.", ask)
       ELSE IF TooFewC(Len(rows))
         THEN Reply("ai-summary-c", key, 400,
                    "Not enough responses to generate an AI summary (need at least 3).", ask)
       ELSE IF fails
         THEN Reply("ai-summary-c", key, 500, "Error generating AI summary.", ask)
       ELSE Reply("ai-summary-c", key, 200, "", AiBody(campaignId, teamLeaderId, "generated"))
  /\ prompt' = IF sends
                 THEN [campaignId |-> campaignId, teamLeaderId |-> teamLeaderId,
                       parts |-> PartsC(rows)]
                 ELSE NoPrompt
  /\ UNCHANGED <<tables, nextCodeId, issued, req, gen, commits, codeRev>>

(***************************************************************************)
(* Team leaders and the overview, code-based revision. name is the body's  *)
(* name without its surrounding white space, pad tells it had some.        *)
(***************************************************************************)
\* A single statement of a handler, through pool.query: it fails in an
\* aborted block.
ReplyC(op, key, error, ok) ==
  IF Aborted THEN Reply(op, key, 500, error, NoData) ELSE ok

\* POST /api/admin/team-leaders (lines 1201-1219).
UpsertTeamLeaderC(key, name, pad) ==
  /\ rev = "code"
  /\ resp' = IF ~adminAuthC(key) THEN Unauthorized("team-leaders-c", key)
             ELSE IF name = "" /\ ~pad
               THEN Reply("team-leaders-c", key, 400, "name required.", NoData)
             ELSE ReplyC("team-leaders-c", key, "DB error upserting TL.",
                         Reply("team-leaders-c", key, 200, "", NoData))
  /\ team_leaders' = IF adminAuthC(key) /\ ~(name = "" /\ ~pad) /\ ~Aborted
                       THEN Upsert(team_leaders, name, TRUE)
                     ELSE team_leaders
  /\ UNCHANGED <<campaigns, codes, feedback, nextCodeId, issued, req, gen, commits,
                 reads>>

\* DELETE /api/admin/team-leaders (lines 1222-1236): the deactivation.
DeactivateTeamLeaderC(key, name, pad) ==
  /\ rev = "code"
  /\ resp' = IF ~adminAuthC(key) THEN Unauthorized("team-leaders/deactivate-c", key)
             ELSE IF name = "" /\ ~pad
               THEN Reply("team-leaders/deactivate-c", key, 400, "name required.", NoData)
             ELSE ReplyC("team-leaders/deactivate-c", key, "DB error deactivating TL.",
                         Reply("team-leaders/deactivate-c", key, 200, "",
                               Count(IF name \in DOMAIN team_leaders THEN 1 ELSE 0)))
  /\ team_leaders' = IF adminAuthC(key) /\ ~(name = "" /\ ~pad) /\ ~Aborted
                       THEN [n \in DOMAIN team_leaders |->
                               IF n = name THEN FALSE ELSE team_leaders[n]]
                     ELSE team_leaders
  /\ UNCHANGED <<campaigns, codes, feedback, nextCodeId, issued, req, gen, commits,
                 reads>>

\* Lines 1288-1299: one row per team leader with feedback in the cycle; AVG
\* skips the rows whose overall_score is null.
OverviewRowsC(campaignId) ==
  [id \in {feedback[i].team_leader_id :
             i \in {j \in 1..Len(feedback) : feedback[j].campaign_id = campaignId}} |->
     LET rows == PairRows(campaignId, id)
         scored == SelectSeq(rows, LAMBDA f : f.overall_score.den # 0) IN
     [responseCount |-> Len(rows), avgScore |-> avgOverall(scored)]]

\* GET /api/admin/overview (lines 1281-1312).
OverviewC(key, campaignId) ==
  /\ rev = "code"
  /\ resp' = IF ~adminAuthC(key) THEN Unauthorized("overview-c", key)
             ELSE IF campaignId = ""
               THEN Reply("overview-c", key, 400, "campaignId required.", NoData)
             ELSE ReplyC("overview-c", key, "DB error fetching overview.",
                         Reply("overview-c", key, 200, "",
                               [NoData EXCEPT !.rows = OverviewRowsC(campaignId)]))
  /\ UNCHANGED <<tables, nextCodeId, issued, req, gen, commits, reads>>

(***************************************************************************)
(* Inputs of the environment.                                              *)
(***************************************************************************)
\* What a client may type as a code: a code, padded, in lower case, or blank.
CodeInputs ==
  {Str(t, pad, lower) : t \in 0..MaxCodes, pad \in BOOLEAN, lower \in BOOLEAN}
\* The tokens a client can present.
TokenInputs ==
  {NoToken} \cup {SignedToken(p, e) : p \in issued, e \in BOOLEAN}
            \cup {ForgedToken(p) : p \in issued}
Text(n) == Plain(n)
GoodScores == [q \in {"q1", "q2"} |-> JNum(4)]
GoodBody == [hasScores |-> TRUE, scores |-> GoodScores, strengthsText |-> Text(1),
             devText |-> Text(1), otherText |-> Text(1)]
\* The bodies of the submissions that race: complete, or with a written
\* answer of white space only.
RaceBodies ==
  {GoodBody, [GoodBody EXCEPT !.devText = Str(0, TRUE, FALSE)]}
Batches(n) == [1..n -> Tokens]
Counts == 0..MaxBatch \cup {MaxCount + 1}

(***************************************************************************)
(* Specifications of the public protocol of the token-based revision.      *)
(* They start from a store an administrator has set up (campaigns created, *)
(* codes generated, nothing redeemed yet).                                 *)
(*   SpecOne:  start-session, one submit-feedback request at a time, and   *)
(*             the admin operations that delete codes or feedback rows;    *)
(*   SpecRace: two submit-feedback requests in flight, every code          *)
(*             redeemed by start-session beforehand.                       *)
(***************************************************************************)
\* The codes generated beforehand: code c has id c; code 1 is of the pair
\* (c1, Gill), every other code of the pair (c1, Gill) or of the pair (c2, Zed).
SeededCodes ==
  {cs \in [1..MaxCodes -> {CodeRow(t, tl, camp) :
                             t \in 1..MaxCodes, tl \in Leaders, camp \in CampaignIds}] :
     /\ \A c \in 1..MaxCodes :
          /\ cs[c].code = c
          /\ cs[c].campaign_id = "c1" <=> cs[c].team_leader_id = "Gill"
     /\ cs[1].campaign_id = "c1"}

InitOne ==
  /\ campaigns = [id \in CampaignIds |-> "L"]
  /\ team_leaders = [n \in Leaders |-> TRUE]
  /\ codes \in SeededCodes
  /\ feedback = <<>>
  /\ nextCodeId = MaxCodes + 1
  /\ issued = {}
  /\ req = [r \in Reqs |-> IdleReq]
  /\ gen = IdleGen
  /\ resp = NoResp
  /\ rev = "token"
  /\ conn = NoConn
  /\ adm = [o \in AdmOps |-> IdleAdm]
  /\ prompt = NoPrompt
  /\ commits = [c \in 1..MaxCodes |-> 0]

SubmitOf(r, bodies) ==
  \/ \E tok \in TokenInputs : \E b \in bodies : SubmitRecv(r, tok, b)
  \/ Begin(r)
  \/ SelectForUpdate(r)
  \/ InsertFeedback(r)
  \/ UpdateCode(r)
  \/ Commit(r)
  \/ Rollback(r)
  \/ StmtFail(r)
Submit(r) == SubmitOf(r, RaceBodies)

Deletes ==
  \/ \E id \in CampaignIds : DeleteCycle(ADMIN_PASSWORD, id)
  \/ \E n \in Leaders : DeleteTeamLeader(ADMIN_PASSWORD, n)
  \/ \E id \in CampaignIds : \E n \in Leaders : DeleteFeedback(ADMIN_PASSWORD, id, n)

\* The codes as they are stored, and one that is not.
PlainCodes == {Plain(t) : t \in 1..(MaxCodes + 1)}
NextOne ==
  \/ \E v \in PlainCodes : StartSession(v)
  \/ SubmitOf(1, {GoodBody})
  \/ Deletes
SpecOne == InitOne /\ [][NextOne]_vars

InitRace ==
  /\ campaigns = [id \in CampaignIds |-> "L"]
  /\ team_leaders = [n \in Leaders |-> TRUE]
  /\ codes \in SeededCodes
  /\ feedback = <<>>
  /\ nextCodeId = MaxCodes + 1
  /\ issued = {signSessionToken(codes[c], c) : c \in DOMAIN codes}
  /\ req = [r \in Reqs |-> IdleReq]
  /\ gen = IdleGen
  /\ resp = NoResp
  /\ rev = "token"
  /\ conn = NoConn
  /\ adm = [o \in AdmOps |-> IdleAdm]
  /\ prompt = NoPrompt
  /\ commits = [c \in 1..MaxCodes |-> 0]
NextRace == \E r \in Reqs : Submit(r)
SpecRace == InitRace /\ [][NextRace]_vars

(***************************************************************************)
(* PUBLIC API, code-based revision: POST /api/start-session (lines         *)
(* 1019-1056). The code is trimmed, not upper-cased, and compared with     *)
(* codes.code as stored; the row is joined with its campaign.              *)
(***************************************************************************)
JoinedCodes(code) ==
  {c \in DOMAIN codes : Plain(codes[c].code) = code
                        /\ codes[c].campaign_id \in DOMAIN campaigns}

StartSessionC(v) ==
  LET code == Trim(v) IN
  /\ rev = "code"
  /\ resp' =
       IF ~Truthy(v)
         THEN Reply("start-session-c", "", 400, "Code is required.", Asked(code, NoPayload))
       ELSE IF Aborted
         THEN Reply("start-session-c", "", 500, "Server error verifying code.",
                    Asked(code, NoPayload))
       ELSE IF JoinedCodes(code) = {}
         THEN Reply("start-session-c", "", 400, "Code not found.", Asked(code, NoPayload))
       ELSE LET id == CHOOSE c \in JoinedCodes(code) : TRUE
                row == codes[id] IN
            IF row.used
              THEN Reply("start-session-c", "", 400, "This code has already been used.",
                         Asked(code, NoPayload))
              ELSE Reply("start-session-c", "", 200, "",
                         Body(code, [codeId |-> 0, campaignId |-> row.campaign_id,
                                     teamLeaderId |-> row.team_leader_id],
                              row.code, campaigns[row.campaign_id], 0))
  /\ UNCHANGED <<tables, nextCodeId, issued, req, gen, commits, reads>>

(***************************************************************************)
(* SpecStart: the start-session handlers of both revisions, on every store *)
(* of up to MaxCodes codes, each unused or consumed by a submission.       *)
(***************************************************************************)
UsedRow(row) == [row EXCEPT !.used = TRUE, !.used_at = 1]
StartCodes ==
  UNION {{Restrict([c \in DOMAIN cs |-> IF c \in U THEN UsedRow(cs[c]) ELSE cs[c]], D) :
            D \in SUBSET (1..MaxCodes), U \in SUBSET (1..MaxCodes)} :
         cs \in SeededCodes}
SubmittedRow(row) ==
  [campaign_id |-> row.campaign_id, team_leader_id |-> row.team_leader_id,
   scores_json |-> GoodScores, overall_score |-> OverallScore(GoodScores),
   strengths_text |-> Text(1), dev_text |-> Text(1), other_text |-> Text(1)]
RECURSIVE RowsOf(_, _)
RowsOf(cs, D) ==
  IF D = {} THEN <<>>
  ELSE LET c == CHOOSE c \in D : \A d \in D : c <= d IN
       (IF cs[c].used THEN <<SubmittedRow(cs[c])>> ELSE <<>>) \o RowsOf(cs, D \ {c})

InitStart ==
  /\ campaigns = [id \in CampaignIds |-> "L"]
  /\ team_leaders = [n \in Leaders |-> TRUE]
  /\ codes \in StartCodes
  /\ feedback = RowsOf(codes, DOMAIN codes)
  /\ nextCodeId = MaxCodes + 1
  /\ issued = {}
  /\ req = [r \in Reqs |-> IdleReq]
  /\ gen = IdleGen
  /\ resp = NoResp
  /\ rev \in Revs
  /\ conn = NoConn
  /\ adm = [o \in AdmOps |-> IdleAdm]
  /\ prompt = NoPrompt
  /\ commits = [c \in 1..MaxCodes |-> IF c \in DOMAIN codes /\ codes[c].used THEN 1 ELSE 0]

NextStart ==
  \/ \E v \in CodeInputs : StartSession(v)
  \/ \E v \in CodeInputs : StartSessionC(v)
SpecStart == InitStart /\ [][NextStart]_vars

(***************************************************************************)
(* SpecScore: one submit-feedback request at a time (token-based           *)
(* revision), its scores object drawn from the objects over two questions  *)
(* whose values are an in-range number, a string that spells one, an       *)
(* out-of-range number, a string that spells no number, or null.           *)
(***************************************************************************)
ScoreValues == {JNum(3), JNumStr(5), JNum(9), JText, JNull}
ScoreObjects == UNION {[K -> ScoreValues] : K \in SUBSET {"q1", "q2"}}
ScoreBodies == {[GoodBody EXCEPT !.scores = sc] : sc \in ScoreObjects}
InitScore ==
  /\ campaigns = [id \in CampaignIds |-> "L"]
  /\ team_leaders = [n \in Leaders |-> TRUE]
  /\ codes \in SeededCodes
  /\ feedback = <<>>
  /\ nextCodeId = MaxCodes + 1
  /\ issued = {signSessionToken(codes[1], 1)}
  /\ req = [r \in Reqs |-> IdleReq]
  /\ gen = IdleGen
  /\ resp = NoResp
  /\ rev = "token"
  /\ conn = NoConn
  /\ adm = [o \in AdmOps |-> IdleAdm]
  /\ prompt = NoPrompt
  /\ commits = [c \in 1..MaxCodes |-> 0]
NextScore == SubmitOf(1, ScoreBodies)
SpecScore == InitScore /\ [][NextScore]_vars

(***************************************************************************)
(* SpecRead: the admin reads (detail, ai-summary) of both revisions over   *)
(* stores of MaxRows codes, each used code with its feedback row; in the   *)
(* code-based revision submit-feedback and delete-feedback run beside them. *)
(***************************************************************************)
Pairs == {<<"c1", "Gill">>, <<"c2", "Zed">>}
\* The row code c left in revision v: every text is filled in (the
\* token-based revision requires it); in the code-based revision the second
\* code left no development text.
ReadRow(v, c, pair) ==
  LET row == [campaign_id |-> pair[1], team_leader_id |-> pair[2],
              scores_json |-> [q \in {"q2"} |-> JNum(4)],
              overall_score |-> Ratio(4, 1),
              strengths_text |-> Text(10 * c + 1),
              dev_text |-> IF v = "code" /\ c = 2 THEN EmptyStr ELSE Text(10 * c + 2),
              other_text |-> Text(10 * c + 3)] IN
  IF v = "code" THEN [x \in DOMAIN row \cup {"code"} |-> IF x = "code" THEN c ELSE row[x]]
  ELSE row
RECURSIVE ReadRows(_, _, _, _)
ReadRows(v, pairOf, U, c) ==
  IF c > MaxRows THEN <<>>
  ELSE (IF c \in U THEN <<ReadRow(v, c, pairOf[c])>> ELSE <<>>)
       \o ReadRows(v, pairOf, U, c + 1)

InitRead ==
  /\ campaigns = [id \in CampaignIds |-> "L"]
  /\ team_leaders = [n \in Leaders |-> TRUE]
  /\ rev \in Revs
  /\ \E pairOf \in [1..MaxRows -> Pairs] : \E U \in SUBSET (1..MaxRows) :
       /\ codes = [c \in 1..MaxRows |->
                     IF c \in U THEN UsedRow(CodeRow(c, pairOf[c][2], pairOf[c][1]))
                     ELSE CodeRow(c, pairOf[c][2], pairOf[c][1])]
       /\ feedback = ReadRows(rev, pairOf, U, 1)
  /\ nextCodeId = MaxRows + 1
  /\ issued = {}
  /\ req = [r \in Reqs |-> IdleReq]
  /\ gen = IdleGen
  /\ resp = NoResp
  /\ conn = NoConn
  /\ adm = [o \in AdmOps |-> IdleAdm]
  /\ prompt = NoPrompt
  /\ commits = [c \in 1..MaxCodes |-> 0]

ReadKeys == {ADMIN_PASSWORD, "wrong"}
ReadCampaigns == CampaignIds \cup {"", "c9"}
\* The bodies of the code-based submissions: complete, or with a rating that
\* is no integer.
BodiesC ==
  {[hasScores |-> TRUE, scores |-> [q \in {"q2"} |-> v], strengthsText |-> Text(1),
    devText |-> d, otherText |-> Text(3)] :
     v \in {JNum(4), JText}, d \in {Text(2)}}
SubmitOfC(r, cs, pairs, bodies) ==
  \/ \E c \in cs : \E pair \in pairs : \E b \in bodies :
       SubmitRecvC(r, Plain(c), pair[1], pair[2], b)
  \/ SubmitSelectC(r)
  \/ SubmitBeginC(r)
  \/ SubmitInsertC(r)
  \/ SubmitUpdateC(r)
  \/ SubmitCommitC(r)
  \/ SubmitRollbackC(r)
DeleteFeedbackC(pairs) ==
  \/ \E pair \in pairs : DeleteFeedbackRecvC(ADMIN_PASSWORD, pair[1], pair[2])
  \/ DeleteFeedbackBeginC
  \/ DeleteFeedbackDeleteC
  \/ DeleteFeedbackUpdateC
  \/ DeleteFeedbackCommitC
  \/ DeleteFeedbackRollbackC
NextRead ==
  \/ \E key \in ReadKeys : \E id \in ReadCampaigns : \E n \in Leaders : \E err \in BOOLEAN :
       Detail(key, id, n, err)
  \/ \E key \in ReadKeys : \E id \in ReadCampaigns : \E n \in Leaders :
     \E configured, err, fails \in BOOLEAN :
       AiSummary(key, id, n, configured, err, fails)
  \/ \E key \in ReadKeys : \E id \in ReadCampaigns : \E n \in Leaders :
       DetailCountC(key, id, n)
  \/ DetailCommentsC
  \/ \E key \in ReadKeys : \E id \in ReadCampaigns : \E n \in Leaders :
     \E configured, fails \in BOOLEAN :
       AiSummaryC(key, id, n, configured, fails)
SpecRead == InitRead /\ [][NextRead]_vars

(***************************************************************************)
(* SpecReadC: the detail handler of the code-based revision beside         *)
(* submit-feedback (for the first code) and delete-feedback, over stores   *)
(* whose codes all belong to one (campaign, team leader) pair.             *)
(***************************************************************************)
InitReadC ==
  /\ InitRead
  /\ rev = "code"
  /\ \A c \in DOMAIN codes : codes[c].campaign_id = "c1"
OnePair == {<<"c1", "Gill">>}
NextReadC ==
  \/ \E pair \in OnePair : DetailCountC(ADMIN_PASSWORD, pair[1], pair[2])
  \/ DetailCommentsC
  \/ SubmitOfC(1, {1}, OnePair, BodiesC)
  \/ DeleteFeedbackC(OnePair)
SpecReadC == InitReadC /\ [][NextReadC]_vars

(***************************************************************************)
(* SpecGen: generate-codes of both revisions over stores that hold the     *)
(* campaign c1 and not c2, the active team leader Gill and the inactive    *)
(* Zed, and fewer than MaxCodes codes; in the code-based revision          *)
(* submit-feedback runs beside it on the pooled connection.                *)
(***************************************************************************)
InitGen ==
  /\ campaigns = [id \in {"c1"} |-> "L"]
  /\ team_leaders = [n \in Leaders |-> n = "Gill"]
  /\ rev \in Revs
  /\ \E k \in 0..(MaxCodes - 1) : \E f \in [1..k -> Tokens] :
       /\ \A i, j \in 1..k : i # j => f[i] # f[j]
       /\ codes = [c \in 1..k |-> CodeRow(f[c], "Gill", "c1")]
       /\ nextCodeId = k + 1
  /\ feedback = <<>>
  /\ issued = {}
  /\ req = [r \in Reqs |-> IdleReq]
  /\ gen = IdleGen
  /\ resp = NoResp
  /\ conn = NoConn
  /\ adm = [o \in AdmOps |-> IdleAdm]
  /\ prompt = NoPrompt
  /\ commits = [c \in 1..MaxCodes |-> 0]

GenKeys == {ADMIN_PASSWORD, "wrong"}
NextGen ==
  \/ \E key \in GenKeys : \E id \in CampaignIds \cup {""} : \E n \in Leaders :
     \E count \in Counts : GenRecv(key, id, n, count)
  \/ GenCheckCampaign
  \/ \E batch \in UNION {Batches(n) : n \in 1..MaxBatch} : GenCheckLeader(batch)
  \/ GenInsert
  \/ \E key \in GenKeys : \E id \in CampaignIds \cup {""} : \E n \in Leaders :
     \E count \in 0..MaxBatch : GenRecvC(key, id, n, count)
  \/ GenBeginC
  \/ \E t \in Tokens : GenInsertC(t)
  \/ GenCommitC
  \/ GenRollbackC
  \/ SubmitOfC(1, Tokens, OnePair, BodiesC)
SpecGen == InitGen /\ [][NextGen]_vars

(***************************************************************************)
(* Specification of the admin API of the token-based revision: every       *)
(* endpoint, called with the password, with another key and without a key, *)
(* on a store that holds two cycles, two team leaders, one used code and   *)
(* its feedback row.                                                       *)
(***************************************************************************)
AdminStore(v) ==
  /\ campaigns = [id \in CampaignIds |-> "L"]
  /\ team_leaders = [n \in Leaders |-> TRUE]
  /\ rev = v
  /\ codes = [c \in {1} |-> UsedRow(CodeRow(1, "Gill", "c1"))]
  /\ feedback = <<ReadRow(v, 1, <<"c1", "Gill">>)>>
  /\ nextCodeId = 2
  /\ issued = {}
  /\ req = [r \in Reqs |-> IdleReq]
  /\ gen = IdleGen
  /\ resp = NoResp
  /\ conn = NoConn
  /\ adm = [o \in AdmOps |-> IdleAdm]
  /\ prompt = NoPrompt
  /\ commits = [c \in 1..MaxCodes |-> 0]

InitAdmin == AdminStore("token")

\* The x-admin-key header: the password, another value, or none. Every
\* request names cycle c1 and team leader Gill; generate-codes asks for one
\* code and randomCode() returns code 2.
AdminKeys == {ADMIN_PASSWORD, "wrong", ""}
NextAdmin ==
  \E key \in AdminKeys :
    \/ ListCampaigns(key)
    \/ \E label \in {"L", "M"} : CreateCampaign(key, "c1", label)
    \/ DeleteCycle(key, "c1")
    \/ ListTeamLeaders(key)
    \/ UpsertTeamLeader(key, "Gill")
    \/ DeactivateTeamLeader(key, "Gill")
    \/ DeleteTeamLeader(key, "Gill")
    \/ GenRecv(key, "c1", "Gill", 1)
    \/ GenCheckCampaign
    \/ GenCheckLeader(<<2>>)
    \/ GenInsert
    \/ Overview(key, "c1", FALSE)
    \/ Detail(key, "c1", "Gill", FALSE)
    \/ DeleteFeedback(key, "c1", "Gill")
    \/ AiSummary(key, "c1", "Gill", TRUE, FALSE, FALSE)
    \/ \E includeAi \in BOOLEAN :
         Compare(key, "Gill", "c2", "c1", includeAi, TRUE, FALSE, FALSE)
SpecAdmin == InitAdmin /\ [][NextAdmin]_vars

(***************************************************************************)
(* Specification of start-session and one submit-feedback request at a    *)
(* time, with the credentials it can come with: the signed token of a      *)
(* redeemed code, the same token expired, a forged one, and none; the body *)
(* is complete, has a written answer of white space only, has no scores    *)
(* object, or has scores that spell no number.                             *)
(***************************************************************************)
CredBodies ==
  RaceBodies \cup {[GoodBody EXCEPT !.hasScores = FALSE],
                   [GoodBody EXCEPT !.scores = [q \in {"q1"} |-> JText]]}
NextCred ==
  \/ \E v \in PlainCodes : StartSession(v)
  \/ SubmitOf(1, CredBodies)
SpecCred == InitScore /\ [][NextCred]_vars

(***************************************************************************)
(* Specification of the averages (token-based revision): detail and        *)
(* compare on a store whose feedback rows, all of team leader Gill, hold   *)
(* scores objects as submit-feedback stores them: ratings in range, a      *)
(* rating of 0, a string that spells a number, null (Number gives 0) and a *)
(* string that spells none, together with at least one finite value.       *)
(***************************************************************************)
AggScores ==
  {[q \in {"q1", "q2"} |-> IF q = "q1" THEN JNum(4) ELSE JNum(5)],
   [q \in {"q1", "q2"} |-> IF q = "q1" THEN JNum(0) ELSE JNum(4)],
   [q \in {"q2", "q4"} |-> IF q = "q2" THEN JNumStr(5) ELSE JNull],
   [q \in {"q1", "q4"} |-> IF q = "q1" THEN JText ELSE JNum(2)]}
\* The scores objects that hold a rating of 0 or none of the first category.
ZeroScores == {sc \in AggScores : "q1" \in DOMAIN sc => sc["q1"] = JNum(0)}
AggRow(campaignId, scores) ==
  [campaign_id |-> campaignId, team_leader_id |-> "Gill", scores_json |-> scores,
   overall_score |-> OverallScore(scores), strengths_text |-> Text(1),
   dev_text |-> Text(1), other_text |-> Text(1)]
InitAgg ==
  /\ campaigns = [id \in CampaignIds |-> "L"]
  /\ team_leaders = [n \in Leaders |-> TRUE]
  /\ rev = "token"
  /\ feedback \in UNION {[1..n -> {AggRow("c1", sc) : sc \in AggScores}
                                     \cup {AggRow("c2", sc) : sc \in ZeroScores}] :
                           n \in 0..MaxRows}
  /\ codes = [c \in 1..Len(feedback) |->
                UsedRow(CodeRow(c, "Gill", feedback[c].campaign_id))]
  /\ nextCodeId = Len(feedback) + 1
  /\ issued = {}
  /\ req = [r \in Reqs |-> IdleReq]
  /\ gen = IdleGen
  /\ resp = NoResp
  /\ conn = NoConn
  /\ adm = [o \in AdmOps |-> IdleAdm]
  /\ prompt = NoPrompt
  /\ commits = [c \in 1..MaxCodes |-> 0]
NextAgg ==
  \/ \E id \in CampaignIds : Detail(ADMIN_PASSWORD, id, "Gill", FALSE)
  \/ \E fromCycle, toCycle \in CampaignIds : \E includeAi \in BOOLEAN :
       Compare(ADMIN_PASSWORD, "Gill", fromCycle, toCycle, includeAi, TRUE, FALSE, FALSE)
SpecAgg == InitAgg /\ [][NextAgg]_vars

(***************************************************************************)
(* Specification of the deactivation of a team leader, in either revision, *)
(* with generate-codes and the overview, on the store of SpecAdmin.        *)
(* randomCode() returns a code that is not stored yet; the ROLLBACK of the *)
(* code-based generate-codes is left out: BEGIN never throws here.         *)
(***************************************************************************)
InitDeact == \E v \in Revs : AdminStore(v)
NextDeact ==
  \/ /\ rev = "token"
     /\ \/ \E name \in Leaders : DeactivateTeamLeader(ADMIN_PASSWORD, name)
        \/ \E key \in GenKeys : GenRecv(key, "c1", "Gill", 1)
        \/ GenCheckCampaign
        \/ GenCheckLeader(<<2>>)
        \/ GenInsert
        \/ Overview(ADMIN_PASSWORD, "c1", FALSE)
  \/ \E name \in Leaders : \E pad \in BOOLEAN :
       DeactivateTeamLeaderC(ADMIN_PASSWORD, name, pad)
  \/ \E key \in GenKeys : GenRecvC(key, "c1", "Gill", 1)
  \/ GenBeginC
  \/ GenInsertC(2)
  \/ GenCommitC
  \/ OverviewC(ADMIN_PASSWORD, "c1")
SpecDeact == InitDeact /\ [][NextDeact]_vars

(***************************************************************************)
(* Specification of the team-leader roster, in either revision: upsert,    *)
(* deactivation and (token-based) deletion of a stored leader with a code  *)
(* and a feedback row, and of a name that is not stored; the token-based   *)
(* generate-codes runs up to its look-up of the active leader.             *)
(***************************************************************************)
UpsertNames == {"Gill", "Kate", ""}
NextUpsert ==
  \/ /\ rev = "token"
     /\ \/ \E key \in GenKeys : \E name \in UpsertNames : UpsertTeamLeader(key, name)
        \/ DeactivateTeamLeader(ADMIN_PASSWORD, "Gill")
        \/ DeleteTeamLeader(ADMIN_PASSWORD, "Gill")
        \/ GenRecv(ADMIN_PASSWORD, "c1", "Gill", 1)
        \/ GenCheckCampaign
        \/ GenCheckLeader(<<2>>)
  \/ \E key \in GenKeys : \E name \in UpsertNames : \E pad \in BOOLEAN :
       UpsertTeamLeaderC(key, name, pad)
  \/ DeactivateTeamLeaderC(ADMIN_PASSWORD, "Gill", FALSE)
SpecUpsert == InitDeact /\ [][NextUpsert]_vars

(***************************************************************************)
(* Specification of the deletion of a cycle (token-based revision):        *)
(* start-session, one submit-feedback request at a time, delete-cycle and  *)
(* the creation of a cycle, which can bring a deleted id back.             *)
(***************************************************************************)
NextCycle ==
  \/ \E v \in PlainCodes : StartSession(v)
  \/ SubmitOf(1, {GoodBody})
  \/ \E id \in CampaignIds : DeleteCycle(ADMIN_PASSWORD, id)
  \/ \E id \in CampaignIds : CreateCampaign(ADMIN_PASSWORD, id, "L")
SpecCycle == InitOne /\ [][NextCycle]_vars

(***************************************************************************)
(* Specification of two submit-feedback requests in flight in the          *)
(* code-based revision, both for the one stored code, which is unused.     *)
(***************************************************************************)
InitRaceC ==
  /\ campaigns = [id \in {"c1"} |-> "L"]
  /\ team_leaders = [n \in {"Gill"} |-> TRUE]
  /\ rev = "code"
  /\ codes = [c \in {1} |-> CodeRow(1, "Gill", "c1")]
  /\ feedback = <<>>
  /\ nextCodeId = 2
  /\ issued = {}
  /\ req = [r \in Reqs |-> IdleReq]
  /\ gen = IdleGen
  /\ resp = NoResp
  /\ conn = NoConn
  /\ adm = [o \in AdmOps |-> IdleAdm]
  /\ prompt = NoPrompt
  /\ commits = [c \in 1..MaxCodes |-> 0]
NextRaceC == \E r \in Reqs : SubmitOfC(r, {1}, OnePair, BodiesC)
SpecRaceC == InitRaceC /\ [][NextRaceC]_vars

(***************************************************************************)
(* Specification of the three multi-statement mutations of the code-based  *)
(* revision in flight together: each public slot r submits once, with the  *)
(* text Text(r), so that a feedback row names the request that inserted    *)
(* it; a score that is no integer makes the INSERT fail. There is one      *)
(* delete-feedback and one generate-codes request, and randomCode()        *)
(* returns code 1 (stored already) or code 2.                              *)
(***************************************************************************)
AtomBodies(r) ==
  {[hasScores |-> TRUE, scores |-> [q \in {"q2"} |-> v], strengthsText |-> Text(r),
    devText |-> EmptyStr, otherText |-> EmptyStr] :
     v \in IF r = 1 THEN {JNum(4)} ELSE {JNum(4), JText}}
NextAtomC ==
  \/ \E r \in Reqs : \E b \in AtomBodies(r) :
       req[r].pc = "idle" /\ SubmitRecvC(r, Plain(1), "c1", "Gill", b)
  \/ \E r \in Reqs : SubmitSelectC(r)
  \/ \E r \in Reqs : SubmitBeginC(r)
  \/ \E r \in Reqs : SubmitInsertC(r)
  \/ \E r \in Reqs : SubmitUpdateC(r)
  \/ \E r \in Reqs : SubmitCommitC(r)
  \/ \E r \in Reqs : SubmitRollbackC(r)
  \/ resp = NoResp /\ DeleteFeedbackC(OnePair)
  \/ \E count \in 1..MaxBatch :
       gen.pc = "idle" /\ GenRecvC(ADMIN_PASSWORD, "c1", "Gill", count)
  \/ GenBeginC
  \/ \E t \in 1..2 : GenInsertC(t)
  \/ GenCommitC
  \/ GenRollbackC
SpecAtomC == InitRaceC /\ [][NextAtomC]_vars


(***************************************************************************)
(* Specification of the submissions of either revision against codes of    *)
(* two pairs: the client names any stored code and, in the code-based      *)
(* revision, any campaign and team leader in the body.                     *)
(***************************************************************************)
InitAttr ==
  /\ campaigns = [id \in CampaignIds |-> "L"]
  /\ team_leaders = [n \in Leaders |-> TRUE]
  /\ codes \in SeededCodes
  /\ feedback = <<>>
  /\ nextCodeId = MaxCodes + 1
  /\ issued = {}
  /\ req = [r \in Reqs |-> IdleReq]
  /\ gen = IdleGen
  /\ resp = NoResp
  /\ rev \in Revs
  /\ conn = NoConn
  /\ adm = [o \in AdmOps |-> IdleAdm]
  /\ prompt = NoPrompt
  /\ commits = [c \in 1..MaxCodes |-> 0]
NextAttr ==
  \/ \E v \in PlainCodes : StartSession(v)
  \/ rev = "token" /\ SubmitOf(1, {GoodBody})
  \/ rev = "token" /\ Deletes
  \/ SubmitOfC(1, 1..MaxCodes, Pairs, BodiesC)
SpecAttr == InitAttr /\ [][NextAttr]_vars


(***************************************************************************)
(* Specification of every operation of the token-based revision that       *)
(* writes codes or feedback rows, interleaved: two submit-feedback         *)
(* requests in flight (each slot submits once), start-session,             *)
(* generate-codes, delete-cycle, delete-feedback and the team-leader       *)
(* handlers (called for Gill). The store starts with both cycles, both     *)
(* team leaders and one unused code of the pair (c1, Gill); one            *)
(* generate-codes request asks for one code of the pair (c2, Zed) and      *)
(* randomCode() returns code 2.                                            *)
(***************************************************************************)
InitAll ==
  /\ campaigns = [id \in CampaignIds |-> "L"]
  /\ team_leaders = [n \in Leaders |-> TRUE]
  /\ rev = "token"
  /\ codes = [c \in {1} |-> CodeRow(1, "Gill", "c1")]
  /\ feedback = <<>>
  /\ nextCodeId = 2
  /\ issued = {}
  /\ req = [r \in Reqs |-> IdleReq]
  /\ gen = IdleGen
  /\ resp = NoResp
  /\ conn = NoConn
  /\ adm = [o \in AdmOps |-> IdleAdm]
  /\ prompt = NoPrompt
  /\ commits = [c \in 1..MaxCodes |-> 0]
NextAll ==
  \/ \E v \in {Plain(1), Plain(2)} : StartSession(v)
  \/ \E r \in Reqs :
       \/ \E p \in issued :
            req[r].pc = "idle" /\ SubmitRecv(r, SignedToken(p, FALSE), GoodBody)
       \/ Begin(r)
       \/ SelectForUpdate(r)
       \/ InsertFeedback(r)
       \/ UpdateCode(r)
       \/ Commit(r)
       \/ Rollback(r)
       \/ StmtFail(r)
  \/ gen.pc = "idle" /\ GenRecv(ADMIN_PASSWORD, "c2", "Zed", 1)
  \/ GenCheckCampaign
  \/ GenCheckLeader(<<2>>)
  \/ GenInsert
  \/ \E id \in CampaignIds : DeleteCycle(ADMIN_PASSWORD, id)
  \/ UpsertTeamLeader(ADMIN_PASSWORD, "Gill")
  \/ DeactivateTeamLeader(ADMIN_PASSWORD, "Gill")
  \/ DeleteTeamLeader(ADMIN_PASSWORD, "Gill")
  \/ \E pair \in Pairs : DeleteFeedback(ADMIN_PASSWORD, pair[1], pair[2])
SpecAll == InitAll /\ [][NextAll]_vars


(***************************************************************************)
(* Specification of the progress of the token-based submit-feedback: two   *)
(* requests in flight for the one stored code, submitting again and again, *)
(* while delete-cycle may remove the code. A statement that is not         *)
(* waiting completes (weak fairness of the request's steps; whether a      *)
(* statement throws is not fair), and the store queues the waiters of a    *)
(* row lock, so that a SELECT ... FOR UPDATE that can take the lock again  *)
(* and again does take it (strong fairness).                               *)
(***************************************************************************)
InitLive ==
  /\ campaigns = [id \in {"c1"} |-> "L"]
  /\ team_leaders = [n \in {"Gill"} |-> TRUE]
  /\ rev = "token"
  /\ codes = [c \in {1} |-> CodeRow(1, "Gill", "c1")]
  /\ feedback = <<>>
  /\ nextCodeId = 2
  /\ issued = {signSessionToken(codes[1], 1)}
  /\ req = [r \in Reqs |-> IdleReq]
  /\ gen = IdleGen
  /\ resp = NoResp
  /\ conn = NoConn
  /\ adm = [o \in AdmOps |-> IdleAdm]
  /\ prompt = NoPrompt
  /\ commits = [c \in 1..MaxCodes |-> 0]
\* The statements of request r that do not wait for a lock.
Completes(r) ==
  Begin(r) \/ InsertFeedback(r) \/ UpdateCode(r) \/ Commit(r) \/ Rollback(r)
NextLive ==
  \/ \E r \in Reqs :
       \/ \E p \in issued : SubmitRecv(r, SignedToken(p, FALSE), GoodBody)
       \/ Completes(r)
       \/ SelectForUpdate(r)
       \/ StmtFail(r)
  \/ DeleteCycle(ADMIN_PASSWORD, "c1")
SpecLive ==
  /\ InitLive
  /\ [][NextLive]_vars
  /\ \A r \in Reqs : WF_vars(Completes(r)) /\ SF_vars(SelectForUpdate(r))


(***************************************************************************)
(* Claims.                                                                 *)
(***************************************************************************)
Raced(r1, r2) ==
  /\ r1 # r2
  /\ req[r1].pc = "done" /\ req[r2].pc = "done"
  /\ req[r1].raced /\ req[r2].raced
  /\ req[r1].payload.codeId = req[r2].payload.codeId
  /\ req[r1].status # 500 /\ req[r2].status # 500

\* C1: when two submit-feedback requests that were both received while the
\* same code was unused have both been answered, and neither met a store
\* error, one of them got 200 and the other 409, exactly one feedback row was
\* committed for the code, and the code is used with the used_at the
\* successful request wrote.
C1_ExactlyOneOfTwo ==
  \A r1, r2 \in Reqs :
    Raced(r1, r2) =>
      LET c == req[r1].payload.codeId
          winner == IF req[r1].status = 200 THEN r1 ELSE r2 IN
      /\ {req[r1].status, req[r2].status} = {200, 409}
      /\ commits[c] = 1
      /\ Len(feedback) = SumOver(commits, DOMAIN commits)
      /\ codes[c].used
      /\ codes[c].used_at = winner

C1_Witness ==
  /\ Raced(1, 2)
  /\ req[1].status = 409 /\ req[2].status = 200
  /\ Len(feedback) = 1

\* C2: a step of a submit-feedback request changes the committed tables only
\* when it is the request's COMMIT, and then it appends the request's
\* feedback row and turns the request's code from unused to used, both in the
\* same step; every other step of the request, its ROLLBACK after a failed
\* statement included, leaves the tables as they are.
C2_AtomicSubmission ==
  [][\A r \in Reqs :
       LET c == req[r].payload.codeId
           commit == /\ req[r].pc = "commit"
                     /\ req'[r].pc = "done"
                     /\ req'[r].status = 200 IN
       /\ (req'[r] # req[r] /\ ~commit) => UNCHANGED tables
       /\ commit =>
            /\ feedback' = Append(feedback, FeedbackRow(r))
            /\ ~codes[c].used
            /\ codes' = [codes EXCEPT ![c].used = TRUE, ![c].used_at = r]
            /\ UNCHANGED <<campaigns, team_leaders>>]_vars

\* A statement has failed after the request's INSERT and UPDATE ran, while
\* the other request committed: the failed request's writes are in no table.
C2_Witness ==
  \E r \in Reqs :
    /\ req[r].pc = "rb_error"
    /\ Len(req[r].ins) = 1 /\ req[r].upd # {}
    /\ ~codes[req[r].payload.codeId].used
    /\ Len(feedback) = 1

StartSessionStep(c) ==
  resp' # resp /\ resp'.op = "start-session" /\ resp'.body.asked = Plain(c)
SubmitAnswered(r, c) ==
  req'[r] # req[r] /\ req'[r].pc = "done" /\ req'[r].payload.codeId = c

\* C3 as claimed: once a submit-feedback has succeeded for a code, every
\* later start-session with the code and every later submit-feedback with a
\* credential for it yields the conflict outcome (a store error aside), and
\* no second feedback row is committed for the code.
C3_AlwaysConflict ==
  [][\A c \in 1..MaxCodes : commits[c] >= 1 =>
       /\ StartSessionStep(c) => resp'.status = 409
       /\ \A r \in Reqs : SubmitAnswered(r, c) => req'[r].status \in {409, 500}
       /\ commits'[c] = commits[c]]_vars

\* C3 as amended: once a submit-feedback has succeeded for a code, no second
\* feedback row is ever committed for it; while the code's row exists a later
\* start-session yields 409 and a later submit-feedback that reaches its
\* transaction yields 409 (or 500 on a store error); once delete-cycle or the
\* deletion of the team leader has removed the row they yield 404 and 400.
C3_ConflictWhileStored ==
  [][\A c \in 1..MaxCodes : commits[c] >= 1 =>
       /\ StartSessionStep(c) =>
            resp'.status = IF c \in DOMAIN codes THEN 409 ELSE 404
       /\ \A r \in Reqs : SubmitAnswered(r, c) =>
            req'[r].status \in (IF c \in DOMAIN codes THEN {409, 500} ELSE {400, 500})
       /\ commits'[c] = commits[c]]_vars

\* After a successful submission for a code, a later start-session and a
\* later submit-feedback for it were both answered with the conflict.
C3_Witness ==
  \E c \in DOMAIN codes :
    /\ commits[c] = 1
    /\ resp.op = "start-session" /\ resp.body.asked = Plain(c) /\ resp.status = 409
    /\ req[1].pc = "done" /\ req[1].payload.codeId = c /\ req[1].status = 409

\* C4: a start-session request, whatever it answers, leaves the campaigns,
\* team_leaders, codes and feedback tables and the id sequence as they were
\* (both revisions).
C4_RedemptionWritesNothing ==
  [][(resp' # resp /\ resp'.op \in {"start-session", "start-session-c"})
       => UNCHANGED <<tables, nextCodeId, commits>>]_vars

\* A code has been redeemed, its credential is signed, and the code is still
\* unused, so that it can be redeemed again.
C4_Witness ==
  \E c \in DOMAIN codes :
    /\ resp.op = "start-session" /\ resp.status = 200
    /\ resp.body.payload.codeId = c
    /\ resp.body.payload \in issued
    /\ ~codes[c].used
    /\ ENABLED (StartSession(Plain(codes[c].code)) /\ resp'.status = 200)

ValidRatings(scores) ==
  {q \in DOMAIN scores :
     /\ isFinite(Number(scores[q]))
     /\ Number(scores[q]).n \in 1..5}
MeanOfValid(scores) ==
  LET V == ValidRatings(scores)
      n == [q \in V |-> Number(scores[q]).n] IN
  Ratio(SumOver(n, V), Cardinality(V))

\* C6: every stored feedback row has at least one rating that is a number
\* in 1..5, and its overall score is the mean of exactly those ratings; a
\* submission without any such rating is answered 400 and stores nothing.
C6_MeanOfValidRatings ==
  /\ \A i \in 1..Len(feedback) :
       /\ ValidRatings(feedback[i].scores_json) # {}
       /\ feedback[i].overall_score = MeanOfValid(feedback[i].scores_json)
  /\ \A r \in Reqs :
       (req[r].pc \notin {"idle", "done"} /\ req[r].body.hasScores)
         => ValidRatings(req[r].body.scores) # {}

\* The texts of a column that are not empty.
NonEmptyTexts(rows, column) ==
  {rows[i][column] : i \in {j \in 1..Len(rows) : Truthy(rows[j][column])}}
DetailAnswered ==
  resp' # resp /\ resp'.op \in {"detail", "detail-c"} /\ resp'.status = 200

\* C7: a detail response (either revision) for a pair that has fewer than
\* three feedback rows carries comments = null; for a pair with three rows
\* or more its comments are exactly the non-empty strengths, development and
\* other texts of the pair's rows.
C7_CommentGate ==
  [][DetailAnswered =>
       LET pair == resp'.body.payload
           rows == PairRows(pair.campaignId, pair.teamLeaderId)
           comments == resp'.body.comments IN
       IF Len(rows) < 3 THEN ~comments.shown
       ELSE /\ comments.shown
            /\ Range(comments.strengths) = NonEmptyTexts(rows, "strengths_text")
            /\ Range(comments.devs) = NonEmptyTexts(rows, "dev_text")
            /\ Range(comments.others) = NonEmptyTexts(rows, "other_text")]_vars

AiSummaryAnswered ==
  resp' # resp /\ resp'.op \in {"ai-summary", "ai-summary-c"}
AllTexts(rows) ==
  NonEmptyTexts(rows, "strengths_text") \cup NonEmptyTexts(rows, "dev_text")
    \cup NonEmptyTexts(rows, "other_text")

\* C8: an ai-summary request (either revision) for a pair with fewer than
\* three feedback rows sends nothing to the text-generation service and
\* answers with the placeholder (the 200 placeholder summary in the
\* token-based revision, the "not enough responses" error in the code-based
\* one), never with a generated summary; whatever is sent to the service is
\* sent for a pair with three rows or more and holds texts of that pair only.
C8_SummaryGate ==
  [][/\ (prompt' # prompt /\ prompt' # NoPrompt) =>
          LET rows == PairRows(prompt'.campaignId, prompt'.teamLeaderId) IN
          /\ Len(rows) >= 3
          /\ {prompt'.parts[i].text : i \in 1..Len(prompt'.parts)} \subseteq AllTexts(rows)
     /\ AiSummaryAnswered =>
          LET pair == resp'.body.payload
              rows == PairRows(pair.campaignId, pair.teamLeaderId) IN
          Len(rows) < 3 =>
            /\ prompt' = NoPrompt
            /\ resp'.body.summary # "generated"
            /\ resp'.status = 200 => resp'.body.summary = "hidden"]_vars

\* The placeholder was answered for a pair that has exactly two feedback
\* rows, and nothing was sent to the service.
C8_Witness ==
  /\ resp.op = "ai-summary" /\ resp.status = 200 /\ resp.body.summary = "hidden"
  /\ Len(PairRows(resp.body.payload.campaignId, resp.body.payload.teamLeaderId)) = 2
  /\ prompt = NoPrompt

\* A generate-codes request that came with the admin key, a stored campaign,
\* an active team leader and a count in 1..500 has been answered, and no
\* statement of it threw anything but a uniqueness conflict.
ValidBatchAnswered ==
  /\ gen.pc = "done"
  /\ gen.status # 401
  /\ gen.caught \in {"", "unique"}
  /\ gen.campaignId \in DOMAIN campaigns
  /\ gen.teamLeaderId \in DOMAIN team_leaders /\ team_leaders[gen.teamLeaderId]
  /\ gen.count \in 1..MaxCount

\* C9: the answer to a valid generate-codes request is 200 with exactly
\* count codes, pairwise distinct, none of which was stored before the
\* request, also when randomCode() returned a code that is stored already or
\* twice the same code: a colliding code never fails the batch.
C9_ExactlyNFreshCodes ==
  ValidBatchAnswered =>
    /\ gen.status = 200
    /\ Len(gen.codes) = gen.count
    /\ ~HasDuplicates(gen.codes)
    /\ Range(gen.codes) \cap gen.before = {}

\* C10: once an INSERT of a generate-codes request has thrown an error that is
\* no uniqueness conflict (a foreign-key violation), the request is not
\* retried: it goes to its failure answer, which is an error, and none of the
\* batch's codes is stored.
C10_OtherErrorsFailTheBatch ==
  gen.caught = "fk" =>
    /\ gen.pc \in {"c_rollback", "done"}
    /\ gen.pc = "done" =>
         /\ gen.status = 500
         /\ StoredCodes \subseteq gen.before


\* What a response body carries of the store.
Discloses(body) ==
  \/ body.n # 0 \/ DOMAIN body.rows # {} \/ body.comments.shown
  \/ body.summary # "" \/ body.agg.responseCount # 0
  \/ body.compare.from.responseCount # 0 \/ body.compare.to.responseCount # 0
  \/ body.compare.aiChangeSummary # ""

\* C11: a request to an admin endpoint whose x-admin-key is absent or is not
\* the password is answered 401 "unauthorized", carries nothing of the store
\* in its body, sends nothing to the text-generation service, and changes no
\* table, no sequence and no request in progress; a generate-codes request
\* ends there without a statement.
C11_UnauthorizedDoesNothing ==
  [][/\ (resp' # resp /\ resp'.key # ADMIN_PASSWORD) =>
          /\ resp'.status = 401 /\ resp'.error = "unauthorized"
          /\ ~Discloses(resp'.body)
          /\ prompt' \in {prompt, NoPrompt}
          /\ UNCHANGED <<tables, nextCodeId, issued, req, gen, conn, adm>>
     /\ (gen' # gen /\ gen'.key # ADMIN_PASSWORD) =>
          /\ gen'.pc = "done" /\ gen'.status = 401 /\ gen'.error = "unauthorized"
          /\ gen'.codes = <<>>
          /\ UNCHANGED <<tables, nextCodeId, issued, req, resp, conn, adm, prompt>>]_vars

\* delete-cycle came with a key that is not the password and was refused
\* while the cycle, a code of it and a feedback row of it are stored.
C11_Witness ==
  /\ resp.op = "delete-cycle" /\ resp.key = "wrong" /\ resp.status = 401
  /\ "c1" \in DOMAIN campaigns
  /\ \E c \in DOMAIN codes : codes[c].campaign_id = "c1"
  /\ \E i \in 1..Len(feedback) : feedback[i].campaign_id = "c1"


\* The credential is present and is not one jwt.verify accepts: it was not
\* signed with the server's secret (forged or tampered with) or has expired.
FailsVerification(tok) ==
  tok.kind = "forged" \/ (tok.kind = "signed" /\ tok.expired)
\* The body passes the checks the handler makes before it verifies the token.
PassesValidation(b) ==
  /\ b.hasScores
  /\ ~IsBlank(safeText(b.strengthsText)) /\ ~IsBlank(safeText(b.devText))
  /\ ~IsBlank(safeText(b.otherText))
\* The request in slot r is answered 401 on receipt: no client is taken, no
\* transaction is opened, no table changes.
AuthenticationError(r) ==
  /\ req'[r].pc = "done" /\ req'[r].status = 401
  /\ req'[r].error = "Session expired. Please click Start over and re-enter your code."
  /\ req'[r].lock = 0 /\ req'[r].ins = <<>> /\ req'[r].upd = {}
  /\ UNCHANGED <<tables, nextCodeId, commits>>

\* The step is the receipt of a request in slot r.
Received(r) == req'[r] # req[r] /\ req[r].pc \in {"idle", "done"}

\* C12 as claimed: every submit-feedback whose credential fails verification
\* is answered with the authentication error, whatever its body.
C12_AlwaysAuthenticationError ==
  [][\A r \in Reqs : Received(r) =>
       \A tok \in TokenInputs : \A b \in CredBodies :
         (SubmitRecv(r, tok, b) /\ FailsVerification(tok)) => AuthenticationError(r)]_vars

\* C12, amended: a submit-feedback whose body passes the validation and
\* whose credential fails verification is answered 401 without a transaction
\* and with the tables unchanged; 401 is the answer to nothing else (the
\* validation errors and the missing row answer 400, the used code 409, a
\* store error 500); and no submit-feedback received with a credential that
\* fails verification ever opens a transaction or changes a table.
C12_InvalidCredentialOutcome ==
  [][\A r \in Reqs :
       /\ Received(r) => \A tok \in TokenInputs : \A b \in CredBodies :
            (SubmitRecv(r, tok, b) /\ FailsVerification(tok)) =>
               /\ req'[r].pc = "done" /\ req'[r].status \in {400, 401}
               /\ UNCHANGED <<tables, nextCodeId, commits>>
               /\ PassesValidation(b) => AuthenticationError(r)
       /\ (req'[r] # req[r] /\ req'[r].status = 401) =>
            \E tok \in TokenInputs : \E b \in CredBodies :
              SubmitRecv(r, tok, b) /\ FailsVerification(tok)]_vars

\* A request was answered 401 while the code its credential names is stored
\* and unused, so that the same request with a verified credential would
\* have gone on to its transaction.
C12_Witness ==
  \E r \in Reqs :
    /\ req[r].pc = "done" /\ req[r].status = 401
    /\ \E c \in DOMAIN codes : ~codes[c].used /\ \E p \in issued : p.codeId = c
    /\ feedback = <<>>


\* C13: a submit-feedback that comes with a verified credential for a stored,
\* unused code and a scores object holding at least one rating in 1..5 is
\* not refused on receipt, whatever its three texts are (filled in, empty or
\* white space): it goes on to its transaction.
C13_TextsOptional ==
  [][\A r \in Reqs : Received(r) =>
       \A tok \in TokenInputs : \A b \in CredBodies :
         (/\ SubmitRecv(r, tok, b)
          /\ tok.kind = "signed" /\ ~tok.expired
          /\ tok.payload.codeId \in DOMAIN codes
          /\ ~codes[tok.payload.codeId].used
          /\ b.hasScores /\ ValidRatings(b.scores) # {})
         => req'[r].pc = "begin"]_vars


\* The mean of the averages of the members of category cat that have data
\* (a key of questionAverages), null when none has.
MeanOfMembersWithData(qa, cat) ==
  LET K == QUESTION_GROUPS[cat] \cap DOMAIN qa IN
  IF K = {} THEN NoScore ELSE RDiv(RSum(qa, K), Cardinality(K))

\* C14: the category averages detail returns are, for every category, the
\* mean of the per-question averages of the member questions that have
\* data, and null when no member question has data.
C14_MeanOfAveragesWithData ==
  (resp.op = "detail" /\ resp.status = 200) =>
    \A cat \in DOMAIN QUESTION_GROUPS :
      resp.body.agg.categoryAverages[cat]
        = MeanOfMembersWithData(resp.body.agg.questionAverages, cat)


\* to minus from, null when a side is null.
ToMinusFrom(a, b) ==
  IF a.den = 0 \/ b.den = 0 THEN NoScore
  ELSE Ratio(b.num * a.den - a.num * b.den, a.den * b.den)

\* C15: compare answers 200 whatever the two cycles hold; each aggregate
\* counts the rows of its cycle for the team leader and has a null overall
\* average exactly when there is no row; the delta of a category is the to
\* average minus the from average when both category averages are there and
\* null when either is null, and so is the overall delta; with no response
\* in the from cycle every delta is null (null, not the number 0).
C15_DeltasNullWithoutData ==
  resp.op = "compare" =>
    LET c == resp.body.compare
        tl == resp.body.payload.teamLeaderId IN
    /\ resp.status = 200
    /\ c.from.responseCount = Len(PairRows(c.from.cycleId, tl))
    /\ c.to.responseCount = Len(PairRows(c.to.cycleId, tl))
    /\ c.from.avgOverall = NoScore <=> c.from.responseCount = 0
    /\ c.to.avgOverall = NoScore <=> c.to.responseCount = 0
    /\ c.overallDelta = ToMinusFrom(c.from.avgOverall, c.to.avgOverall)
    /\ \A cat \in DOMAIN QUESTION_GROUPS :
         c.deltas[cat] = ToMinusFrom(c.from.categoryAverages[cat],
                                     c.to.categoryAverages[cat])
    /\ (c.from.responseCount = 0 \/ c.to.responseCount = 0) =>
         /\ c.overallDelta = NoScore
         /\ \A cat \in DOMAIN QUESTION_GROUPS : c.deltas[cat] = NoScore

\* compare has answered for a from cycle without a response and a to cycle
\* with responses and a category average: every delta is null.
C15_Witness ==
  /\ resp.op = "compare" /\ resp.status = 200
  /\ resp.body.compare.from.responseCount = 0
  /\ resp.body.compare.to.responseCount > 0
  /\ \E cat \in DOMAIN QUESTION_GROUPS :
       resp.body.compare.to.categoryAverages[cat] # NoScore
  /\ resp.body.compare.overallDelta = NoScore
  /\ \A cat \in DOMAIN QUESTION_GROUPS : resp.body.compare.deltas[cat] = NoScore


\* C16: a deactivation changes nothing but the active flag of one team
\* leader, which it sets to false; a generate-codes request received while
\* its team leader is inactive is rejected and inserts no code; and the
\* overview lists no inactive team leader.
C16_DeactivationExcludes ==
  [][/\ (resp' # resp /\ resp'.op \in {"team-leaders/deactivate",
                                       "team-leaders/deactivate-c"}) =>
          /\ UNCHANGED <<campaigns, codes, feedback, nextCodeId>>
          /\ DOMAIN team_leaders' = DOMAIN team_leaders
          /\ \A n \in DOMAIN team_leaders :
               team_leaders'[n] # team_leaders[n] => ~team_leaders'[n]
          /\ Cardinality({n \in DOMAIN team_leaders :
                            team_leaders'[n] # team_leaders[n]}) <= 1
     /\ (gen' # gen /\ gen'.pc = "done" /\ gen'.inactive) =>
          /\ gen'.status \in {400, 401}
          /\ gen'.codes = <<>>
          /\ StoredCodes' = gen'.before
     /\ (resp' # resp /\ resp'.op \in {"overview", "overview-c"}
           /\ resp'.status = 200) =>
          \A n \in DOMAIN resp'.body.rows :
            n \in DOMAIN team_leaders /\ team_leaders[n]]_vars


\* C17: after a team-leaders request that was answered 200 the roster holds
\* the name (the body's name without its surrounding white space) with
\* active = true, whether the name was absent, active or inactive before;
\* every other row of the roster is as it was; campaigns, codes and feedback
\* are unchanged; and the same statement run again would change nothing.
C17_UpsertIdempotent ==
  [][\A name \in UpsertNames : \A pad \in BOOLEAN :
       (/\ \/ rev = "token" /\ UpsertTeamLeader(ADMIN_PASSWORD, name)
           \/ UpsertTeamLeaderC(ADMIN_PASSWORD, name, pad)
        /\ resp'.status = 200) =>
         /\ DOMAIN team_leaders' = DOMAIN team_leaders \cup {name}
         /\ team_leaders'[name]
         /\ \A n \in DOMAIN team_leaders \ {name} : team_leaders'[n] = team_leaders[n]
         /\ UNCHANGED <<campaigns, codes, feedback, nextCodeId>>
         /\ Upsert(team_leaders', name, TRUE) = team_leaders']_vars

\* Gill, who has a code and a feedback row, was inactive (a generate-codes
\* request was refused for that reason) and the last team-leaders request
\* made Gill active again.
C17_Witness ==
  /\ resp.op = "team-leaders" /\ resp.status = 200
  /\ gen.pc = "done" /\ gen.inactive /\ gen.teamLeaderId = "Gill"
  /\ gen.error = "Team leader not found / inactive"
  /\ "Gill" \in DOMAIN team_leaders /\ team_leaders["Gill"]
  /\ \E c \in DOMAIN codes : codes[c].team_leader_id = "Gill"
  /\ \E i \in 1..Len(feedback) : feedback[i].team_leader_id = "Gill"


\* C18: a delete-cycle answered 200 removes the campaign, every codes row
\* and every feedback row of it, and nothing else (the rows of the other
\* campaigns and the roster stay); a feedback row is only ever committed for
\* a credential whose code is still stored; and a submit-feedback that comes
\* with an issued credential whose code is gone is answered with an error
\* and leaves feedback as it is.
C18_DeleteCycleCascades ==
  [][/\ \A id \in CampaignIds :
          (DeleteCycle(ADMIN_PASSWORD, id) /\ resp'.status = 200) =>
            /\ campaigns' = Restrict(campaigns, DOMAIN campaigns \ {id})
            /\ \A c \in DOMAIN codes' : codes'[c].campaign_id # id
            /\ \A i \in 1..Len(feedback') : feedback'[i].campaign_id # id
            /\ codes' = Restrict(codes, {c \in DOMAIN codes : codes[c].campaign_id # id})
            /\ feedback' = SelectSeq(feedback, LAMBDA f : f.campaign_id # id)
            /\ UNCHANGED team_leaders
     /\ \A r \in Reqs :
          /\ (req'[r] # req[r] /\ Len(feedback') > Len(feedback)) =>
               req[r].payload.codeId \in DOMAIN codes
          /\ (req'[r] # req[r] /\ req'[r].pc = "done" /\ req'[r].payload \in issued
                /\ req'[r].payload.codeId \notin DOMAIN codes) =>
               /\ req'[r].status \in {400, 500}
               /\ UNCHANGED feedback]_vars

\* A cycle was deleted, a credential issued for one of its codes was then
\* presented and refused as an invalid session, and no row of the cycle is
\* stored.
C18_Witness ==
  /\ resp.op = "delete-cycle" /\ resp.status = 200 /\ resp.body.n = 1
  /\ req[1].pc = "done" /\ req[1].status = 400
  /\ req[1].error = "Invalid code session."
  /\ req[1].payload \in issued
  /\ req[1].payload.campaignId \notin DOMAIN campaigns
  /\ \A c \in DOMAIN codes : codes[c].campaign_id # req[1].payload.campaignId
  /\ \A i \in 1..Len(feedback) : feedback[i].campaign_id # req[1].payload.campaignId


\* The feedback rows stored for a code.
RowsOfCode(code) == {i \in 1..Len(feedback) : feedback[i].code = code}

\* C19: whatever the interleaving of two code-based submissions for the same
\* unused code, once both are answered (and no transaction block is open) at
\* most one feedback row is stored for the code and the two requests have
\* not both been answered 200.
C19_OneRowForTheCode ==
  (req[1].pc = "done" /\ req[2].pc = "done" /\ conn.txn = "none") =>
    /\ \A c \in DOMAIN codes : Cardinality(RowsOfCode(codes[c].code)) <= 1
    /\ ~(/\ req[1].status = 200 /\ req[2].status = 200
         /\ Trim(req[1].code) = Trim(req[2].code))


\* C20: in the code-based revision a multi-statement mutation leaves none of
\* its earlier writes behind once one of its statements after BEGIN has
\* failed: a submission answered 500 has no feedback row stored, and when an
\* INSERT of generate-codes fails none of the codes the request inserted
\* before is stored outside a transaction block.
RowsBy(r) == {i \in 1..Len(feedback) : feedback[i].strengths_text = Text(r)}
C20_SubmitRolledBack ==
  \A r \in Reqs : (req[r].pc = "done" /\ req[r].status = 500) => RowsBy(r) = {}
C20_GenerateRolledBack ==
  ((\E t \in 1..2 : GenInsertC(t)) /\ gen'.codes = gen.codes /\ conn'.txn = "none") =>
    \A i \in 1..Len(gen.codes) : gen.codes[i] \notin StoredCodes'
C20_RollsBackCompletely ==
  [][C20_SubmitRolledBack' /\ C20_GenerateRolledBack]_vars


\* C21: a feedback row carries the campaign and the team leader of the code
\* the submission consumed: the rows a token-based submission commits are of
\* the pair of the code its session names, and the row a code-based
\* submission inserts is of the pair of the code its body names.
OfPairOf(row, c) ==
  /\ row.campaign_id = codes[c].campaign_id
  /\ row.team_leader_id = codes[c].team_leader_id
C21_RowOfTheCodesPair ==
  [][\A r \in Reqs :
       /\ (rev = "token" /\ Commit(r)) =>
            \A i \in 1..Len(req[r].ins) :
              /\ req[r].payload.codeId \in DOMAIN codes
              /\ OfPairOf(req[r].ins[i], req[r].payload.codeId)
       /\ (SubmitInsertC(r) /\ feedback' # feedback) =>
            \A c \in CodesNamed(Trim(req[r].code)) :
              OfPairOf(feedback'[Len(feedback')], c)]_vars


\* C22: in the token-based revision, whatever the interleaving of the
\* operations, every (campaign, team leader) pair has at most as many
\* feedback rows as used codes, and a stored code that is used stays used.
RowsOfPair(campaignId, teamLeaderId) ==
  {i \in 1..Len(feedback) : /\ feedback[i].campaign_id = campaignId
                            /\ feedback[i].team_leader_id = teamLeaderId}
UsedCodesOfPair(campaignId, teamLeaderId) ==
  {c \in DOMAIN codes : /\ codes[c].used
                        /\ codes[c].campaign_id = campaignId
                        /\ codes[c].team_leader_id = teamLeaderId}
RowsWithinUsedCodes ==
  \A id \in CampaignIds : \A n \in Leaders :
    Cardinality(RowsOfPair(id, n)) <= Cardinality(UsedCodesOfPair(id, n))
C22_RowsWithinUsedCodes ==
  [][/\ RowsWithinUsedCodes'
     /\ \A c \in DOMAIN codes \cap DOMAIN codes' : codes[c].used => codes'[c].used]_vars
\* Both codes are used, each by an accepted submission, and delete-feedback
\* has removed the row of (c1, Gill) since: the pair has a used code and no
\* row, the pair (c2, Zed) a used code and its row.
C22_Witness ==
  /\ \A r \in Reqs : req[r].pc = "done" /\ req[r].status = 200
  /\ Cardinality(UsedCodesOfPair("c1", "Gill")) = 1
  /\ Cardinality(UsedCodesOfPair("c2", "Zed")) = 1
  /\ resp.op = "delete-feedback" /\ resp.status = 200
  /\ RowsOfPair("c1", "Gill") = {}
  /\ Cardinality(RowsOfPair("c2", "Zed")) = 1


\* C23: a token-based submit-feedback request that has answered holds no
\* row lock (its transaction was ended by COMMIT or ROLLBACK on the path it
\* took), and a request that has issued BEGIN, waiting for the lock or not,
\* eventually answers.
InTransaction(r) == req[r].pc \notin {"idle", "done"}
====
